---- MODULE Spec2Model ----
(***************************************************************************)
(* Model of the JOMOO remote-control protocol decoder (src/pd.py).        *)
(*                                                                         *)
(* The decoder is a libsigrokdecode v3 decoder: decode() is one endless    *)
(* loop that dispatches on self.state and gives control to the host in     *)
(* every call of self.wait().  An action here is the code from one wait()  *)
(* to the next: the entry of a branch up to its first wait(), or the       *)
(* return of a wait() up to the wait() that follows or to the top of the   *)
(* loop.  While decode() is in a wait() the host may call the public       *)
(* methods metadata(), putx() and reset(); they are actions too.  The      *)
(* edge source (self.wait) and the annotation sink (self.put) belong to    *)
(* the host; they are modelled by the variables wave (the pulse durations  *)
(* of the packet the host is delivering), left (the number of its edges    *)
(* the capture still holds), pos (the sample the host stands at) and out   *)
(* (the annotations put in the session, each with the number of the        *)
(* packet it was put for).  A wait() for an edge that the capture does not *)
(* hold never returns.                                                     *)
(*                                                                         *)
(* Times: the code computes times as Python floats (IEEE-754 doubles).     *)
(* A double is modelled bit for bit as mantissa * 2^exponent with a 53-bit *)
(* mantissa held in 12-bit limbs, and *, +, -, / round to nearest, ties to *)
(* even, as the hardware does.                                             *)
(* Bytes: a Python bytes object of length one is its integer 0..255; the   *)
(* int -1 that the code uses as the "invalid" marker stays -1.             *)
(***************************************************************************)
EXTENDS Integers, Sequences, FiniteSets, TLC

\* ------------------------------------------------------------------------
\* Bounds of the model
\* ------------------------------------------------------------------------

\* number of packets the edge source delivers in a session before it is
\* exhausted
MaxPackets == 2

\* number of calls of putx() and reset() the host makes in a session while
\* decode() is in a wait()
MaxHostCalls == 1

\* the longest capture, in edges, on which the host makes these calls: the
\* preamble and the first bits of the start byte
MaxHostCallEdges == 10

\* ------------------------------------------------------------------------
\* Python float arithmetic (IEEE-754 binary64) on non-negative numbers
\* ------------------------------------------------------------------------

\* a natural number is a tuple of NLIMBS limbs of LIMB_BITS bits, the least
\* significant first
LIMB_BITS == 12

LIMB == 4096

NLIMBS == 10

\* the bits of the mantissa of a double
MANT_BITS == 53

TwoTo(r) == <<1, 2, 4, 8, 16, 32, 64, 128, 256, 512, 1024, 2048, 4096>>[r + 1]

BigZero == [i \in 1..NLIMBS |-> 0]

Limb(a, i) == IF i \in 1..NLIMBS THEN a[i] ELSE 0

\* a natural number below 2^31 as limbs
BigOfInt(n) ==
    [i \in 1..NLIMBS |->
       IF i = 1 THEN n % LIMB
       ELSE IF i = 2 THEN (n \div LIMB) % LIMB
       ELSE IF i = 3 THEN n \div (LIMB * LIMB)
       ELSE 0]

\* carry (or borrow) propagation over columns c from column i on, k being
\* the carry into it
RECURSIVE CarryFrom(_, _, _)
CarryFrom(c, i, k) ==
    IF i > NLIMBS THEN << >>
    ELSE << (c[i] + k) % LIMB >> \o CarryFrom(c, i + 1, (c[i] + k) \div LIMB)

\* carry (or borrow) propagation over columns c
Carry(c) == CarryFrom(c, 1, 0)

BigAdd(a, b) == Carry([i \in 1..NLIMBS |-> a[i] + b[i]])

\* a - b for a >= b
BigSub(a, b) == Carry([i \in 1..NLIMBS |-> a[i] - b[i]])

\* a * b for two mantissas (five limbs each)
BigMul(a, b) ==
    Carry([k \in 1..NLIMBS |->
             LET T(i) == IF (k + 1 - i) \in 1..5 THEN a[i] * b[k + 1 - i] ELSE 0
             IN T(1) + T(2) + T(3) + T(4) + T(5)])

BigLeq(a, b) ==
    ~ \E i \in 1..NLIMBS : a[i] > b[i] /\ \A j \in (i + 1)..NLIMBS : a[j] = b[j]

\* the number of bits of a limb
BitLen(n) == CHOOSE k \in 0..LIMB_BITS :
                 n < TwoTo(k) /\ (k = 0 \/ TwoTo(k - 1) <= n)

BigBitLen(a) ==
    IF a = BigZero THEN 0
    ELSE LET top == CHOOSE i \in 1..NLIMBS :
                      a[i] # 0 /\ \A j \in (i + 1)..NLIMBS : a[j] = 0
         IN LIMB_BITS * (top - 1) + BitLen(a[top])

\* a \div 2^s
ShiftRight(a, s) ==
    LET q == s \div LIMB_BITS
        r == s % LIMB_BITS
    IN [i \in 1..NLIMBS |->
          (Limb(a, i + q) \div TwoTo(r))
          + (Limb(a, i + q + 1) % TwoTo(r)) * TwoTo(LIMB_BITS - r)]

\* a * 2^s
ShiftLeft(a, s) ==
    LET q == s \div LIMB_BITS
        r == s % LIMB_BITS
    IN [i \in 1..NLIMBS |->
          ((Limb(a, i - q) * TwoTo(r)) % LIMB)
          + (Limb(a, i - q - 1) \div TwoTo(LIMB_BITS - r))]

\* bit p of a (bit 0 is the least significant)
BitAt(a, p) == (Limb(a, p \div LIMB_BITS + 1) \div TwoTo(p % LIMB_BITS)) % 2

\* one of the s low bits of a is set
LowBitsSet(a, s) ==
    \/ \E i \in 1..NLIMBS : i <= s \div LIMB_BITS /\ a[i] # 0
    \/ Limb(a, s \div LIMB_BITS + 1) % TwoTo(s % LIMB_BITS) # 0

\* the double 0.0
FZero == [m |-> BigZero, e |-> 0]

IsZero(x) == x.m = BigZero

\* the double nearest to n * 2^e (n > 0), ties to even; inexact says that
\* n itself was cut off a longer number
Round(n, e, inexact) ==
    LET len == BigBitLen(n)
        s == len - MANT_BITS
    IN IF s <= 0
       THEN [m |-> ShiftLeft(n, 0 - s), e |-> e + s]
       ELSE LET m0 == ShiftRight(n, s)
                half == BitAt(n, s - 1) = 1
                sticky == LowBitsSet(n, s - 1) \/ inexact
                up == half /\ (sticky \/ (m0[1] % 2) = 1)
                m1 == IF up THEN BigAdd(m0, BigOfInt(1)) ELSE m0
            IN IF BigBitLen(m1) > MANT_BITS
               THEN [m |-> ShiftRight(m1, 1), e |-> e + s + 1]
               ELSE [m |-> m1, e |-> e + s]

\* float(n) of an int 0 <= n < 2^31: exact
FromInt(n) == IF n = 0 THEN FZero ELSE Round(BigOfInt(n), 0, FALSE)

\* the hexadecimal digits of the quotient computed behind the point
FRAC_DIGITS == 21

\* the first k hexadecimal digits behind the point of r / b, for r < b
RECURSIVE FracDigits(_, _, _)
FracDigits(r, b, k) ==
    IF k = 0 THEN << >>
    ELSE << (r * 16) \div b >> \o FracDigits((r * 16) % b, b, k - 1)

\* what is left of r / b behind these digits (0: the digits are exact)
RECURSIVE FracRest(_, _, _)
FracRest(r, b, k) == IF k = 0 THEN r ELSE FracRest((r * 16) % b, b, k - 1)

\* a / b of two ints (true division), and the value of a decimal literal
\* such as 0.64 = 64/100: the double nearest to the quotient.  For
\* 0 <= a < 2^31 and 0 < b < 2^27.
FromRatio(a, b) ==
    IF a = 0 THEN FZero
    ELSE LET D == FracDigits(a % b, b, FRAC_DIGITS)
             whole == a \div b
             n == [i \in 1..NLIMBS |->
                     IF i <= 7
                     THEN LET j == 3 * (7 - i)
                          IN (D[j + 1] * 256) + (D[j + 2] * 16) + D[j + 3]
                     ELSE IF i = 8 THEN whole % LIMB
                     ELSE IF i = 9 THEN (whole \div LIMB) % LIMB
                     ELSE whole \div (LIMB * LIMB)]
         IN Round(n, 0 - 4 * FRAC_DIGITS,
                  FracRest(a % b, b, FRAC_DIGITS) # 0)

\* x * y
FMul(x, y) ==
    IF IsZero(x) \/ IsZero(y) THEN FZero
    ELSE Round(BigMul(x.m, y.m), x.e + y.e, FALSE)

\* exponents further apart than this leave the larger operand unchanged
MAX_ALIGN == 64

\* x + y
FAdd(x, y) ==
    IF IsZero(x) THEN y
    ELSE IF IsZero(y) THEN x
    ELSE LET hi == IF x.e >= y.e THEN x ELSE y
             lo == IF x.e >= y.e THEN y ELSE x
             d == hi.e - lo.e
         IN IF d > MAX_ALIGN THEN hi
            ELSE Round(BigAdd(ShiftLeft(hi.m, d), lo.m), lo.e, FALSE)

\* x <= y
FLeq(x, y) ==
    \/ IsZero(x)
    \/ /\ ~IsZero(y)
       /\ \/ x.e < y.e
          \/ x.e = y.e /\ BigLeq(x.m, y.m)

\* x - y for x >= y
FSub(x, y) ==
    IF IsZero(y) THEN x
    ELSE IF x = y THEN FZero
    ELSE LET d == x.e - y.e
         IN IF d > MAX_ALIGN THEN x
            ELSE Round(BigSub(ShiftLeft(x.m, d), y.m), y.e, FALSE)

\* the double 1.0
FOne == FromInt(1)

\* ------------------------------------------------------------------------
\* Program constants (src/pd.py:25-35, 51-55, 88-95)
\* ------------------------------------------------------------------------

LOG_DEBUG == 0

TIME_TOL == 10

\* 4 and 8: ints, which int * float converts to the doubles 4.0 and 8.0
TIME_PREAMBLE_LOW_MS == FromInt(4)

TIME_PREAMBLE_HIGH_MS == FromInt(8)

\* the literals 0.64, 1.44 and 0.48: the doubles nearest to them
TIME_LOGIC_LOW == FromRatio(64, 100)

TIME_ONE_HIGH == FromRatio(144, 100)

TIME_ZERO_HIGH == FromRatio(48, 100)

\* 0x4C
START_CODE == 76

\* class Status
Status == [IDLE |-> 0, PREAMBLE |-> 1, START |-> 2, DATA |-> 3, SUM |-> 4]

\* class Ann: annotation indices
Ann == [BIT |-> 0, PREAMBLE |-> 1, START |-> 2, DATA |-> 3, STOP |-> 4,
        ID |-> 5, FUNCTION |-> 6, ARGS |-> 7, SUM |-> 8, INVALID |-> 9,
        DEBUG |-> 10]

\* annotation_rows: the row each annotation class is displayed in
annotation_rows == [bits |-> {0}, packet |-> {1, 2, 3}, datas |-> {6, 7, 8},
                    errors |-> {9}, debugs |-> {10}]

\* the sample rate the host reports through metadata(), in Hz
SAMPLERATE == 50000

\* an attribute that no statement has assigned yet (reset() does not set
\* self.samplerate, self.interval_ms and self.samplenum)
NO_ATTR == -1

\* self.interval_ms before decode() has assigned it: no double
NO_INTERVAL == [m |-> BigZero, e |-> NO_ATTR]

\* ------------------------------------------------------------------------
\* Host primitives
\* ------------------------------------------------------------------------

\* self.wait({0: 'f'}), self.wait({0: 'r'}), self.wait({0: 'h'}) while the
\* pin has the other level: the match is the next edge, d samples ahead.
WaitEdge(s, d) == s + d

\* self.wait({0: 'l'}) that does not look at the current sample again
WaitLevel_skip(s) == s + 1

\* self.wait({0: 'l'}) issued at a sample where the pin is already low (the
\* falling edge that ended the previous pulse pair): libsigrokdecode
\* re-examines the current sample, so the match is the current sample.
WaitLevel(s) == s

\* h holds what the statements between two calls of wait() read and write
\* through self, and the host's side of them: the sample the host stands
\* at (pos), self.samplenum, self.ss, self.es, the annotations put (out) and
\* the number of edges the capture still holds (left).

\* self.wait() for an edge returns: the host matched the next edge, d
\* samples ahead, and set self.samplenum
Wait(h, d) ==
    [h EXCEPT !.pos = WaitEdge(h.pos, d),
              !.samplenum = WaitEdge(h.pos, d),
              !.left = h.left - 1]

\* self.wait({0: 'l'}) returns: no edge is consumed
WaitLow(h) ==
    [h EXCEPT !.pos = WaitLevel(h.pos), !.samplenum = WaitLevel(h.pos)]

\* ------------------------------------------------------------------------
\* Pure helpers of the decoder
\* ------------------------------------------------------------------------

\* self.interval_ms = 1000 / self.samplerate
interval_of(rate) == FromRatio(1000, rate)

\* a second sample rate, at which 90 % of 0.64 ms is a whole number of
\* samples
FAST_SAMPLERATE == 12000000

\* the numbers of samples at rate next to the bounds of a nominal time of
\* us microseconds, and the nominal number itself
CountsNear(us, rate) ==
    LET per_ms == rate \div 1000
        lo == (us * 9 * per_ms) \div 10000
        hi == (us * 11 * per_ms) \div 10000
    IN { lo - 1, lo, lo + 1, (us * per_ms) \div 1000, hi - 1, hi, hi + 1 }

\* the sample rates and the numbers of samples between two edges for which
\* the pulse times are computed once
PulseRates == { SAMPLERATE, FAST_SAMPLERATE }

PulseCounts ==
    (0..720) \cup CountsNear(640, FAST_SAMPLERATE)
             \cup CountsNear(480, FAST_SAMPLERATE)
             \cup CountsNear(1440, FAST_SAMPLERATE)

\* the function f as an explicit table, its values computed once
Table(f) == f @@ << >>

\* (end - start) * self.interval_ms for these
PulseTimes ==
    Table([a \in { interval_of(r) : r \in PulseRates } \X PulseCounts |->
              FMul(FromInt(a[2]), a[1])])

\* self.interval_ms at each of the rates
Intervals == Table([r \in PulseRates |-> interval_of(r)])

\* calc_pluse_time: (end - start) * self.interval_ms
calc_pluse_time(interval, start, end) ==
    IF <<interval, end - start>> \in DOMAIN PulseTimes
    THEN PulseTimes[<<interval, end - start>>]
    ELSE FMul(FromInt(end - start), interval)

\* target_time * (1 - tol / 100)
lower_bound(target_time, tol) ==
    FMul(target_time, FSub(FOne, FromRatio(tol, 100)))

\* target_time * (1 + tol / 100)
upper_bound(target_time, tol) ==
    FMul(target_time, FAdd(FOne, FromRatio(tol, 100)))

\* the target times the decoder calls check_pluse_time with; it leaves tol
\* to its default in every call
Nominals == { TIME_PREAMBLE_LOW_MS, TIME_PREAMBLE_HIGH_MS, TIME_LOGIC_LOW,
              TIME_ONE_HIGH, TIME_ZERO_HIGH }

\* the two bounds for these arguments, computed once
Bounds ==
    Table([a \in Nominals \X {TIME_TOL} |->
              [lower |-> lower_bound(a[1], a[2]),
               upper |-> upper_bound(a[1], a[2])]])

\* check_pluse_time: target_time * (1 - tol / 100) <= measuretime
\*                   <= target_time * (1 + tol / 100), in floats
check_pluse_time(measuretime, target_time, tol) ==
    /\ FLeq(Bounds[<<target_time, tol>>].lower, measuretime)
    /\ FLeq(measuretime, Bounds[<<target_time, tol>>].upper)

HexDigits == <<"0", "1", "2", "3", "4", "5", "6", "7",
               "8", "9", "A", "B", "C", "D", "E", "F">>

\* value.hex().upper() of a one-byte bytes object
Hex(b) == HexDigits[(b \div 16) + 1] \o HexDigits[(b % 16) + 1]

\* int(binary_str, 2): the digits are read most significant first
RECURSIVE BinToInt(_)
BinToInt(bits) ==
    IF bits = <<>> THEN 0
    ELSE 2 * BinToInt(SubSeq(bits, 1, Len(bits) - 1)) + bits[Len(bits)]

\* logic_data[::-1]
Reverse(s) == [i \in 1..Len(s) |-> s[Len(s) + 1 - i]]

\* logic_to_byte with the bits taken least significant first
logic_to_byte_lsb(logic_data) == BinToInt(Reverse(logic_data))

\* logic_to_byte(logic_data, msb=True)
logic_to_byte(logic_data) == BinToInt(logic_data)

\* check_sum8 without the final mask
check_sum8_nomask(buffer) ==
    LET RECURSIVE Sum(_)
        Sum(b) == IF b = <<>> THEN 0 ELSE b[1] + Sum(Tail(b))
    IN Sum(buffer)

\* check_sum8: sum of the bytes, & 0xFF
check_sum8(buffer) ==
    LET RECURSIVE Sum(_)
        Sum(b) == IF b = <<>> THEN 0 ELSE b[1] + Sum(Tail(b))
    IN Sum(buffer) % 256

\* int.to_bytes(4, 'big') raises OverflowError for a negative int ("can't
\* convert negative int to unsigned") and for one of more than 32 bits
\* ("int too big to convert")
to_bytes_raises(n) == n < 0 \/ (n \div 65536) >= 65536

\* int.to_bytes(4, 'big') as the list of its four bytes, for 0 <= n < 2^32
to_bytes4(n) == << (n \div 16777216) % 256, (n \div 65536) % 256,
                   (n \div 256) % 256, n % 256 >>

\* ------------------------------------------------------------------------
\* Symbol and byte decoding
\* ------------------------------------------------------------------------

\* self.put(ss, es, self.out_ann, [cls, labels]): the annotation the host
\* receives; pkt is the number of packets completed before, so that the
\* sink can tell the packets apart
put(h, start, end, cls, labels, pkt) ==
    [h EXCEPT !.out = Append(h.out, [ss |-> start, es |-> end, ann |-> cls,
                                     label |-> labels, pkt |-> pkt])]

\* putx: puts an annotation over (self.ss, self.es), then self.ss = self.es.
\* Nothing in the decoder calls it.
putx(h, cls, labels, pkt) ==
    [put(h, h.ss, h.es, cls, labels, pkt) EXCEPT !.ss = h.es]

\* put_debug: as putx, but only when LOG_DEBUG is set (the text is the
\* measured time followed by "ms")
put_debug(h, pkt) ==
    IF LOG_DEBUG # 0
    THEN [put(h, h.ss, h.es, Ann.DEBUG, <<"ms">>, pkt) EXCEPT !.ss = h.es]
    ELSE h

\* put_label with the two ends of the anchor in the wrong order
put_label_swapped(h, anchor, cls, labels, pkt) ==
    [put(h, anchor[2], anchor[1], cls, labels, pkt) EXCEPT !.ss = h.es]

\* put_label: puts the annotation over the anchor, then self.ss = self.es
put_label(h, anchor, cls, labels, pkt) ==
    [put(h, anchor[1], anchor[2], cls, labels, pkt) EXCEPT !.ss = h.es]

\* read_logic_level, "Verify logic level": 0, 1 or -1 (invalid)
logic_level(low_pluse_times, high_pluse_times) ==
    IF check_pluse_time(low_pluse_times, TIME_LOGIC_LOW, TIME_TOL)
    THEN IF check_pluse_time(high_pluse_times, TIME_ZERO_HIGH, TIME_TOL) THEN 0
         ELSE IF check_pluse_time(high_pluse_times, TIME_ONE_HIGH, TIME_TOL) THEN 1
         ELSE -1
    ELSE -1

\* the element of a one-element set (used to evaluate a value once)
The(S) == CHOOSE x \in S : TRUE

\* the locals of read_logic_level while no call of it is running
NoLevel == [label_start |-> NO_ATTR, low_pluse_times |-> NO_INTERVAL]

\* read_logic_level, line 216, once self.wait({0: 'l'}) has returned:
\* label_start = self.ss = self.samplenum
level_low(h) ==
    [h |-> [h EXCEPT !.ss = h.samplenum],
     f |-> [label_start |-> h.samplenum, low_pluse_times |-> NO_INTERVAL]]

\* read_logic_level, lines 218-221, once self.wait({0: 'h'}) has returned:
\* self.es = self.samplenum; low_pluse_times; put_debug; self.ss = self.es
level_rose(interval, h, f, pkt) ==
    [h |-> [put_debug([h EXCEPT !.es = h.samplenum], pkt)
              EXCEPT !.ss = h.samplenum],
     f |-> [f EXCEPT !.low_pluse_times =
                        calc_pluse_time(interval, h.ss, h.samplenum)]]

\* read_logic_level, lines 224-239, once self.wait({0: 'f'}) has returned:
\* self.es = self.samplenum; high_pluse_times; put_debug; self.ss =
\* self.es; the symbol and its anchor are returned
level_fell(interval, h, f, pkt) ==
    [h |-> [put_debug([h EXCEPT !.es = h.samplenum], pkt)
              EXCEPT !.ss = h.samplenum],
     value |-> logic_level(f.low_pluse_times,
                           calc_pluse_time(interval, h.ss, h.samplenum)),
     anchor |-> <<f.label_start, h.samplenum>>]

\* the number of symbols of a byte: range(8)
BITS_PER_BYTE == 8

\* the verdict of read_byte with the invalid flag ignored
byte_result_ignore(invalid, logic_data) ==
    IF Len(logic_data) > 0 THEN logic_to_byte(logic_data) ELSE -1

\* read_byte, the return: the packed byte when no symbol was invalid
\* (the flag is named "invalid" in the code and is True while all are valid)
byte_result(invalid, logic_data) ==
    IF invalid THEN logic_to_byte(logic_data) ELSE -1

\* read_byte, the loop body: the Bit annotation put for a symbol
bit_label(logic_value) ==
    IF logic_value = 1 THEN <<"1">>
    ELSE IF logic_value = 0 THEN <<"0">>
    ELSE <<"Invalid", "I">>

\* read_byte, lines 259-261: the locals before the loop (label_end is not
\* assigned before the eighth symbol)
read_byte_enter ==
    [i |-> 0, logic_data |-> << >>, label_start |-> NO_ATTR,
     label_end |-> NO_ATTR, invalid |-> TRUE]

\* the locals of read_byte while no call of it is running
NoByte == [read_byte_enter EXCEPT !.i = NO_ATTR]

\* read_byte, one iteration of "for i in range(8)", lines 264-278: f holds
\* the locals (i, logic_data, label_start, label_end, invalid), r is what
\* read_logic_level returned
read_byte_step(f, r, pkt) ==
    [h |-> put_label(r.h, r.anchor, Ann.BIT, bit_label(r.value), pkt),
     f |-> [i |-> f.i,
            logic_data |-> IF r.value = 1 THEN Append(f.logic_data, 1)
                           ELSE IF r.value = 0 THEN Append(f.logic_data, 0)
                           ELSE f.logic_data,
            label_start |-> IF f.i = 0 THEN r.anchor[1] ELSE f.label_start,
            label_end |-> IF f.i = BITS_PER_BYTE - 1 THEN r.anchor[2]
                          ELSE f.label_end,
            invalid |-> IF r.value \in {0, 1} THEN f.invalid ELSE FALSE]]

\* read_byte, lines 279-283: what it returns after the eighth symbol
read_byte_return(h, f) ==
    [h |-> h,
     value |-> byte_result(f.invalid, f.logic_data),
     anchor |-> <<f.label_start, f.label_end>>]

\* ------------------------------------------------------------------------
\* Preamble and start byte
\* ------------------------------------------------------------------------

\* the verdict of is_preamble with only the low pulse checked
preamble_verdict_lowonly(low_pluse_times, high_pluse_times) ==
    IF check_pluse_time(low_pluse_times, TIME_PREAMBLE_LOW_MS, TIME_TOL)
    THEN 1 ELSE -1

\* is_preamble, "check preamble": 1 when both pulses match, else -1
preamble_verdict(low_pluse_times, high_pluse_times) ==
    IF /\ check_pluse_time(low_pluse_times, TIME_PREAMBLE_LOW_MS, TIME_TOL)
       /\ check_pluse_time(high_pluse_times, TIME_PREAMBLE_HIGH_MS, TIME_TOL)
    THEN 1 ELSE -1

\* the locals of is_preamble while no call of it is running
NoPreamble == [label_start |-> NO_ATTR, low_pluse_times |-> NO_INTERVAL]

\* is_preamble, lines 167-168, once the first self.wait({0: 'f'}) has
\* returned: self.ss = self.samplenum; label_start = self.ss
preamble_fell(h) ==
    [h |-> [h EXCEPT !.ss = h.samplenum],
     f |-> [label_start |-> h.samplenum, low_pluse_times |-> NO_INTERVAL]]

\* is_preamble, lines 170-173, once self.wait({0: 'r'}) has returned
preamble_rose(interval, h, f, pkt) ==
    [h |-> [put_debug([h EXCEPT !.es = h.samplenum], pkt)
              EXCEPT !.ss = h.samplenum],
     f |-> [f EXCEPT !.low_pluse_times =
                        calc_pluse_time(interval, h.ss, h.samplenum)]]

\* is_preamble, lines 177-190, once the second self.wait({0: 'f'}) has
\* returned: the verdict and the anchor are returned
preamble_ended(interval, h, f, pkt) ==
    [h |-> [put_debug([h EXCEPT !.es = h.samplenum], pkt)
              EXCEPT !.ss = h.samplenum],
     value |-> preamble_verdict(f.low_pluse_times,
                                calc_pluse_time(interval, h.ss, h.samplenum)),
     anchor |-> <<f.label_start, h.samplenum>>]

\* the Python truth value of an int
Truthy(v) == v # 0

\* decode, Status.IDLE branch: the Preamble annotation for is_preamble's value
preamble_label(v) ==
    IF Truthy(v) THEN <<"Preamble", "P">> ELSE <<"Invalid", "I">>

\* is_start: the labels of the Start annotation
start_label(v) ==
    IF v # -1
    THEN IF v = START_CODE
         THEN <<"Start (0x" \o Hex(v) \o ")", "Start", "S">>
         ELSE <<"Invalid", "I">>
    ELSE <<"Invalid", "I">>

\* is_start, lines 197-210, once read_byte has returned r: the byte is kept
\* in self.start_code and labelled
is_start(r, pkt) ==
    [h |-> put_label(r.h, r.anchor, Ann.START, start_label(r.value), pkt),
     start_code |-> r.value,
     result |-> (r.value # -1 /\ r.value = START_CODE)]

\* ------------------------------------------------------------------------
\* Input signals (src/__init__.py:22-26: the protocol format)
\* ------------------------------------------------------------------------

\* the nominal times of the protocol, in microseconds
PREAMBLE_LOW_US == 4000

PREAMBLE_HIGH_US == 8000

LOGIC_LOW_US == 640

ONE_HIGH_US == 1440

ZERO_HIGH_US == 480

\* samples per pulse of us microseconds at SAMPLERATE
Samples(us) == (us * (SAMPLERATE \div 1000)) \div 1000

\* logic 0: 0.64 ms low + 0.48 ms high; logic 1: 0.64 ms low + 1.44 ms high
EncodeBit(b) ==
    << Samples(LOGIC_LOW_US),
       IF b = 1 THEN Samples(ONE_HIGH_US) ELSE Samples(ZERO_HIGH_US) >>

Pow2(n) == IF n = 0 THEN 1 ELSE IF n = 1 THEN 2 ELSE IF n = 2 THEN 4
           ELSE IF n = 3 THEN 8 ELSE IF n = 4 THEN 16 ELSE IF n = 5 THEN 32
           ELSE IF n = 6 THEN 64 ELSE 128

\* one byte, most significant bit first, at nominal timings
EncodeByte(v) == [i \in 1..8 |-> EncodeBit((v \div Pow2(8 - i)) % 2)]

\* preamble: 4 ms low + 8 ms high
EncodePreamble == << Samples(PREAMBLE_LOW_US), Samples(PREAMBLE_HIGH_US) >>

\* the idle time before a packet (10 ms) and the low time that ends it, in
\* samples
IdleGap == Samples(10000)

EndGap == Samples(LOGIC_LOW_US)

\* the edges of a packet: 3 of the preamble, 2 for each bit of the six
\* bytes, the closing rising edge
EdgesPerPacket == 3 + 6 * BITS_PER_BYTE * 2 + 1

\* a packet as the host delivers it: the distance to the first falling
\* edge, the preamble pulse pair, six bytes of eight pulse pairs (start,
\* four payload bytes, checksum), the distance to the closing rising edge,
\* and the number of these edges the capture holds
Signal(pre, st, d0, d1, d2, d3, ck) ==
    [gap |-> IdleGap, pre |-> pre, bytes |-> <<st, d0, d1, d2, d3, ck>>,
     tail |-> EndGap, edges |-> EdgesPerPacket]

\* |preamble|Start(0x4C)|Data(4 Byte)|CheckSum| at nominal timings
EncodePacket(p) ==
    Signal(EncodePreamble, EncodeByte(START_CODE),
           EncodeByte(p[1]), EncodeByte(p[2]), EncodeByte(p[3]), EncodeByte(p[4]),
           EncodeByte((p[1] + p[2] + p[3] + p[4]) % 256))

\* a byte whose i-th pulse pair (1..8) is replaced
WithPulse(train, i, pulse) == [train EXCEPT ![i] = pulse]

\* a high pulse of 1.0 ms: neither a 0 nor a 1
BadHigh == << Samples(LOGIC_LOW_US), Samples(1000) >>

\* a low pulse one sample long
BadLow == << 1, Samples(ZERO_HIGH_US) >>

Preambles ==
    { EncodePreamble,
      \* 3 ms low: out of tolerance
      << Samples(3000), Samples(PREAMBLE_HIGH_US) >>,
      \* exactly 90 % low and 110 % high
      << (Samples(PREAMBLE_LOW_US) * 9) \div 10,
         (Samples(PREAMBLE_HIGH_US) * 11) \div 10 >>,
      \* one sample above 110 % high
      << Samples(PREAMBLE_LOW_US),
         (Samples(PREAMBLE_HIGH_US) * 11) \div 10 + 1 >> }

Starts ==
    { EncodeByte(START_CODE),
      EncodeByte(START_CODE + 1),
      WithPulse(EncodeByte(START_CODE), 3, BadHigh) }

\* the payload the statistics look for, and one whose byte sum exceeds 255
PayloadA == <<1, 2, 3, 4>>

PayloadB == <<255, 2, 3, 4>>

EncodePayload(p) == [i \in 1..4 |-> EncodeByte(p[i])]

Payloads ==
    { EncodePayload(PayloadA),
      EncodePayload(PayloadB),
      [EncodePayload(PayloadA) EXCEPT ![2] = WithPulse(EncodeByte(2), 5, BadHigh)],
      [EncodePayload(PayloadA) EXCEPT ![1] = WithPulse(EncodeByte(1), 1, BadLow)] }

\* the payloads with the checksum bytes that follow them: PayloadA with its
\* checksum, a wrong one and an Invalid one; PayloadB with its checksum;
\* PayloadA less one byte with the checksum of PayloadA and an Invalid one
PayloadsWithChecksum ==
    { << EncodePayload(PayloadA), ck >> :
        ck \in { EncodeByte(10), EncodeByte(12),
                 WithPulse(EncodeByte(10), 8, BadHigh) } }
    \cup
    { << EncodePayload(PayloadB), EncodeByte(8) >> }
    \cup
    { << d, ck >> :
        d \in Payloads \ { EncodePayload(PayloadA), EncodePayload(PayloadB) },
        ck \in { EncodeByte(10), WithPulse(EncodeByte(10), 8, BadHigh) } }

\* the packets the capture can hold whole
WholeSignals ==
    { Signal(EncodePreamble, EncodeByte(START_CODE),
             dc[1][1], dc[1][2], dc[1][3], dc[1][4], dc[2]) :
        dc \in PayloadsWithChecksum }
    \cup
    { Signal(EncodePreamble, st, d[1], d[2], d[3], d[4], ck) :
        st \in Starts, d \in {EncodePayload(PayloadA)},
        ck \in {EncodeByte(10), WithPulse(EncodeByte(10), 8, BadHigh)} }
    \cup
    { Signal(pre, EncodeByte(START_CODE), d[1], d[2], d[3], d[4], EncodeByte(10)) :
        pre \in Preambles, d \in {EncodePayload(PayloadA)} }

\* the numbers of edges of its last packet a capture can hold when it ends
\* within the packet: in the preamble (0, 2), between the preamble and the
\* start byte (3), in the start byte (10), before and in the payload (19,
\* 45), in the checksum byte (90) and before the closing edge (99)
CaptureEnds == {0, 2, 3, 10, 19, 45, 90, 99}

\* the packets a capture ends in
CutSignals ==
    { [EncodePacket(PayloadA) EXCEPT !.edges = n] : n \in CaptureEnds }

\* what the edge source can deliver next
PacketSignals == WholeSignals \cup CutSignals

\* the packets that follow the first one of a session: PayloadA with its
\* checksum, with an Invalid checksum byte, with its second byte Invalid,
\* with its first byte and its checksum byte Invalid, with its start byte
\* and its checksum byte Invalid, and a capture that ends in the payload
FollowSignals ==
    { Signal(EncodePreamble, EncodeByte(START_CODE),
             dc[1][1], dc[1][2], dc[1][3], dc[1][4], dc[2]) :
        dc \in { << EncodePayload(PayloadA), EncodeByte(10) >>,
                 << EncodePayload(PayloadA),
                    WithPulse(EncodeByte(10), 8, BadHigh) >>,
                 << [EncodePayload(PayloadA) EXCEPT
                       ![2] = WithPulse(EncodeByte(2), 5, BadHigh)],
                    EncodeByte(10) >>,
                 << [EncodePayload(PayloadA) EXCEPT
                       ![1] = WithPulse(EncodeByte(1), 1, BadLow)],
                    WithPulse(EncodeByte(10), 8, BadHigh) >> } }
    \cup
    { Signal(EncodePreamble, WithPulse(EncodeByte(START_CODE), 3, BadHigh),
             EncodeByte(1), EncodeByte(2), EncodeByte(3), EncodeByte(4),
             WithPulse(EncodeByte(10), 8, BadHigh)) }
    \cup
    { [EncodePacket(PayloadA) EXCEPT !.edges = 45] }

\* the captures on which the host calls putx() and reset() while decode()
\* is in a wait()
HostCallSignals == { w \in CutSignals : w.edges <= MaxHostCallEdges }

\* options['target_data']: 0 (statistics off), 0x01020304, or a value that
\* is no unsigned 4-byte number
Targets == {0, 16909060, -1}

\* the sample rates the host may report through metadata(): 0 (unknown),
\* SAMPLERATE, at which the signals above have their nominal timings, or
\* FAST_SAMPLERATE, at which the same samples are far shorter pulses
SampleRates == {0, SAMPLERATE, FAST_SAMPLERATE}

\* ------------------------------------------------------------------------
\* State
\* ------------------------------------------------------------------------

VARIABLES
    pc,               \* "start": decode() not entered; "loop": at the top
                      \* of the while loop; "wait": in a call of
                      \* self.wait(), the host has control; "raised":
                      \* decode() left by an exception
    line,             \* the line of the self.wait() decode() is in, or 0
    branch,           \* the branch of the loop decode() is in (the state
                      \* it was entered with), or NO_ATTR
    exc,              \* the exception that ended decode(), or "none"
    samplerate,       \* self.samplerate
    target_data,      \* self.options['target_data']
    interval_ms,      \* self.interval_ms, a double
    state,            \* self.state
    ss, es,           \* self.ss, self.es
    samplenum,        \* self.samplenum
    datas,            \* self.datas
    datas_anchors,    \* self.datas_anchors
    start_code,       \* self.start_code
    checksum_invalid, \* self.checksum_invalid (True = checksum matched)
    total, pass_num, fail_num,
    is_statistic,     \* self.is_statistic
    value, anchor, preable_anchor,   \* locals of decode()
    frames,           \* the other locals alive across a wait(): those of
                      \* is_preamble, read_logic_level and read_byte, and
                      \* i, label_start, label_end of decode()
    wave,             \* the packet signal being delivered by the host
    left,             \* the edges of it that the capture still holds
    pos,              \* the sample the host stands at
    out,              \* the annotations put in this session, in order
    host_calls,       \* the calls of putx() and reset() the host made in
                      \* this session while decode() was in a wait()
    cp                \* the last call of a helper made on its own

vars == << pc, line, branch, exc, samplerate, target_data, interval_ms, state, ss, es,
           samplenum, datas, datas_anchors, start_code, checksum_invalid,
           total, pass_num, fail_num, is_statistic, value, anchor,
           preable_anchor, frames, wave, left, pos, out, host_calls, cp >>

NoWave == [gap |-> 0, pre |-> << >>, bytes |-> << >>, tail |-> 0, edges |-> 0]

NoCall == [measure |-> 0, target |-> 0, tol |-> 0, called |-> FALSE,
           result |-> FALSE]

\* i, label_start and label_end of decode() before the START branch has
\* assigned them
NoData == [i |-> NO_ATTR, label_start |-> NO_ATTR, label_end |-> NO_ATTR]

\* no call of decode() is running
NoFrames ==
    [is_preamble |-> NoPreamble, read_logic_level |-> NoLevel,
     read_byte |-> NoByte, decode |-> NoData]

\* __init__: reset(); the options set by the host.  metadata() has not been
\* called, decode() has not run, wait() has not returned.
InitDecoder ==
    /\ pc = "start"
    /\ line = 0
    /\ branch = NO_ATTR
    /\ exc = "none"
    /\ samplerate = NO_ATTR
    /\ target_data \in Targets
    /\ interval_ms = NO_INTERVAL
    /\ state = Status.IDLE
    /\ ss = 0
    /\ es = 0
    /\ samplenum = NO_ATTR
    /\ datas = << >>
    /\ datas_anchors = << >>
    /\ start_code = 0
    /\ checksum_invalid = FALSE
    /\ total = 0
    /\ pass_num = 0
    /\ fail_num = 0
    /\ is_statistic = FALSE
    /\ value = 0
    /\ anchor = <<0, 0>>
    /\ preable_anchor = <<0, 0>>
    /\ frames = NoFrames
    /\ wave = NoWave
    /\ left = 0
    /\ pos = 0
    /\ out = << >>
    /\ host_calls = 0

Init == InitDecoder /\ cp = NoCall

\* the host has control: decode() has not been entered, is in a wait(), or
\* has ended
HostHasControl == pc \in {"start", "wait", "raised"}

\* decode() is in a wait() for an edge that the capture does not hold: the
\* wait() does not return
Blocked == pc = "wait" /\ line # 215 /\ left = 0

\* decode() is in a wait() of a capture on which the host also calls
\* putx() and reset() before the wait() returns
OpenToHost ==
    /\ pc = "wait"
    /\ ~Blocked
    /\ host_calls < MaxHostCalls
    /\ wave \in HostCallSignals

\* reset(): the eleven attributes it assigns; self.samplerate,
\* self.interval_ms and self.samplenum are left as they are.  Once decode()
\* has ended, by an exception or in a wait() that does not return, the
\* host calls it to start a new session: the locals of decode(), the
\* capture and the annotations of the session are gone.  Called while
\* decode() is in a wait() that returns, decode() goes on with its locals.
Reset ==
    /\ \/ pc \in {"start", "raised"}
       \/ Blocked
       \/ OpenToHost
    /\ state' = Status.IDLE
    /\ ss' = 0
    /\ es' = 0
    /\ datas' = << >>
    /\ start_code' = 0
    /\ checksum_invalid' = FALSE
    /\ datas_anchors' = << >>
    /\ total' = 0
    /\ pass_num' = 0
    /\ fail_num' = 0
    /\ is_statistic' = FALSE
    /\ IF pc = "raised" \/ Blocked
       THEN /\ pc' = "start"
            /\ line' = 0
            /\ branch' = NO_ATTR
            /\ exc' = "none"
            /\ value' = 0
            /\ anchor' = <<0, 0>>
            /\ preable_anchor' = <<0, 0>>
            /\ frames' = NoFrames
            /\ wave' = NoWave
            /\ left' = 0
            /\ pos' = 0
            /\ out' = << >>
            /\ host_calls' = 0
       ELSE /\ host_calls' = IF pc = "wait" THEN host_calls + 1
                             ELSE host_calls
            /\ UNCHANGED << pc, line, branch, exc, value, anchor,
                            preable_anchor, frames, wave, left, pos, out >>
    /\ UNCHANGED << samplerate, target_data, interval_ms, samplenum, cp >>

\* metadata(srd.SRD_CONF_SAMPLERATE, v): before decode(), or while it is
\* in a wait()
Metadata ==
    /\ HostHasControl
    /\ \E v \in SampleRates : samplerate' = v
    /\ UNCHANGED << pc, line, branch, exc, target_data, interval_ms, state,
                    ss, es, samplenum, datas, datas_anchors, start_code,
                    checksum_invalid, total, pass_num, fail_num, is_statistic,
                    value, anchor, preable_anchor, frames, wave, left, pos,
                    out, host_calls, cp >>

\* what the decoder reads through self, and the host's side of it
Entered ==
    [pos |-> pos, samplenum |-> samplenum, ss |-> ss, es |-> es,
     left |-> left, out |-> out]

\* what has been written through self, and put, when decode() comes to its
\* next wait() or to the top of the loop
Stored(h) ==
    /\ pos' = h.pos
    /\ samplenum' = h.samplenum
    /\ ss' = h.ss
    /\ es' = h.es
    /\ left' = h.left
    /\ out' = h.out

\* putx([Ann.BIT, ['1']]) called by the host (start() has registered the
\* output): before decode(), after it ended, while it is in a wait() that
\* does not return, or in a wait() that returns on the captures of
\* HostCallSignals
Putx ==
    /\ host_calls < MaxHostCalls
    /\ \/ pc \in {"start", "raised"}
       \/ Blocked
       \/ OpenToHost
    /\ Stored(putx(Entered, Ann.BIT, <<"1">>, total))
    /\ host_calls' = host_calls + 1
    /\ UNCHANGED << pc, line, branch, exc, samplerate, target_data,
                    interval_ms, state, datas, datas_anchors, start_code, checksum_invalid,
                    total, pass_num, fail_num, is_statistic, value, anchor,
                    preable_anchor, frames, wave, cp >>

\* ------------------------------------------------------------------------
\* decode()
\* ------------------------------------------------------------------------

\* decode(), before the loop: the sample rate check, interval_ms and
\* is_statistic
DecodeStart ==
    /\ pc = "start"
    /\ IF samplerate = NO_ATTR
       THEN /\ pc' = "raised"
            /\ exc' = "AttributeError"
            /\ UNCHANGED << interval_ms, is_statistic >>
       ELSE IF samplerate = 0
       THEN /\ pc' = "raised"
            /\ exc' = "SamplerateError"
            /\ UNCHANGED << interval_ms, is_statistic >>
       ELSE /\ pc' = "loop"
            /\ exc' = "none"
            /\ interval_ms' = interval_of(samplerate)
            /\ is_statistic' = (IF target_data = 0 THEN FALSE ELSE TRUE)
    /\ UNCHANGED << line, branch, samplerate, target_data, state, ss, es,
                    samplenum,
                    datas, datas_anchors, start_code, checksum_invalid, total,
                    pass_num, fail_num, value, anchor, preable_anchor, frames,
                    wave, left, pos, out, host_calls, cp >>

\* decode() comes to the self.wait() of line n
WaitAt(n) == pc' = "wait" /\ line' = n

\* decode() comes back to the top of the loop
LoopTop == pc' = "loop" /\ line' = 0 /\ branch' = NO_ATTR

\* the self.wait() of line n can return: decode() is in it, and for an edge
\* the capture holds one more
Returns(n) == pc = "wait" /\ line = n /\ left > 0

\* Status.IDLE branch, lines 308-311 and 166: is_preamble() is called and
\* waits for the first falling edge.  The host delivers the next packet
\* signal w, one of signals (of HostCallSignals once it has called putx()
\* or reset() in this session); after MaxPackets of them the capture has
\* ended.
IdleOn(signals) ==
    /\ pc = "loop"
    /\ state = Status.IDLE
    /\ \E w \in (IF total >= MaxPackets THEN {NoWave}
                 ELSE IF host_calls > 0 THEN HostCallSignals
                 ELSE signals) :
          /\ wave' = w
          /\ left' = w.edges
    /\ WaitAt(166)
    /\ branch' = state
    /\ UNCHANGED << exc, samplerate, target_data, interval_ms, state, ss, es,
                    samplenum, datas, datas_anchors, start_code,
                    checksum_invalid, total, pass_num, fail_num, is_statistic,
                    value, anchor, preable_anchor, frames, pos, out,
                    host_calls, cp >>

\* the first packet of a session is any of PacketSignals, the packets after
\* it are of FollowSignals
Idle == IdleOn(IF total = 0 THEN PacketSignals ELSE FollowSignals)

\* is_preamble, lines 166-168: the first falling edge
PreambleFalling ==
    /\ Returns(166)
    /\ \E r \in { preamble_fell(Wait(Entered, wave.gap)) } :
          /\ Stored(r.h)
          /\ frames' = [frames EXCEPT !.is_preamble = r.f]
    /\ WaitAt(169)
    /\ UNCHANGED << branch, exc, samplerate, target_data, interval_ms, state, datas,
                    datas_anchors, start_code, checksum_invalid, total,
                    pass_num, fail_num, is_statistic, value, anchor,
                    preable_anchor, wave, host_calls, cp >>

\* is_preamble, lines 169-173 and 176: the rising edge, the low pulse
PreambleRising ==
    /\ Returns(169)
    /\ \E r \in { preamble_rose(interval_ms, Wait(Entered, wave.pre[1]),
                                frames.is_preamble, total) } :
          /\ Stored(r.h)
          /\ frames' = [frames EXCEPT !.is_preamble = r.f]
    /\ WaitAt(176)
    /\ UNCHANGED << branch, exc, samplerate, target_data, interval_ms, state, datas,
                    datas_anchors, start_code, checksum_invalid, total,
                    pass_num, fail_num, is_statistic, value, anchor,
                    preable_anchor, wave, host_calls, cp >>

\* is_preamble, lines 176-190, and the rest of the Status.IDLE branch,
\* lines 311-319: the second falling edge, the verdict, the Preamble
\* annotation
PreambleEnd ==
    /\ Returns(176)
    /\ \E r \in { preamble_ended(interval_ms, Wait(Entered, wave.pre[2]),
                                 frames.is_preamble, total) } :
          /\ value' = r.value
          /\ anchor' = r.anchor
          /\ preable_anchor' = r.anchor
          /\ Stored(put_label(r.h, r.anchor, Ann.PREAMBLE,
                              preamble_label(r.value), total))
    /\ frames' = [frames EXCEPT !.is_preamble = NoPreamble]
    /\ state' = Status.PREAMBLE
    /\ LoopTop
    /\ UNCHANGED << exc, samplerate, target_data, interval_ms, datas,
                    datas_anchors, start_code, checksum_invalid, total,
                    pass_num, fail_num, is_statistic, wave, host_calls, cp >>

\* Status.PREAMBLE branch, lines 321-323, is_start line 196, read_byte
\* lines 259-263 and read_logic_level line 215
Preamble ==
    /\ pc = "loop"
    /\ state = Status.PREAMBLE
    /\ frames' = [frames EXCEPT !.read_byte = read_byte_enter]
    /\ WaitAt(215)
    /\ branch' = state
    /\ UNCHANGED << exc, samplerate, target_data, interval_ms, state, ss, es,
                    samplenum, datas, datas_anchors, start_code,
                    checksum_invalid, total, pass_num, fail_num, is_statistic,
                    value, anchor, preable_anchor, wave, left, pos, out,
                    host_calls, cp >>

\* Status.START branch, lines 325-330: self.datas = [],
\* self.datas_anchors = [], the first read_byte()
Start ==
    /\ pc = "loop"
    /\ state = Status.START
    /\ datas' = << >>
    /\ datas_anchors' = << >>
    /\ frames' = [frames EXCEPT !.decode.i = 0,
                                !.read_byte = read_byte_enter]
    /\ WaitAt(215)
    /\ branch' = state
    /\ UNCHANGED << exc, samplerate, target_data, interval_ms, state, ss, es,
                    samplenum, start_code, checksum_invalid, total, pass_num,
                    fail_num, is_statistic, value, anchor, preable_anchor,
                    wave, left, pos, out, host_calls, cp >>

\* Status.DATA branch, lines 355-357: read_byte() for the checksum byte
Data ==
    /\ pc = "loop"
    /\ state = Status.DATA
    /\ frames' = [frames EXCEPT !.read_byte = read_byte_enter]
    /\ WaitAt(215)
    /\ branch' = state
    /\ UNCHANGED << exc, samplerate, target_data, interval_ms, state, ss, es,
                    samplenum, datas, datas_anchors, start_code,
                    checksum_invalid, total, pass_num, fail_num, is_statistic,
                    value, anchor, preable_anchor, wave, left, pos, out,
                    host_calls, cp >>

\* Status.SUM branch, lines 373-375: the wait for the closing rising edge
Sum ==
    /\ pc = "loop"
    /\ state = Status.SUM
    /\ WaitAt(375)
    /\ branch' = state
    /\ UNCHANGED << exc, samplerate, target_data, interval_ms, state, ss, es,
                    samplenum, datas, datas_anchors, start_code,
                    checksum_invalid, total, pass_num, fail_num, is_statistic,
                    value, anchor, preable_anchor, frames, wave, left, pos,
                    out, host_calls, cp >>

\* the byte of the packet signal that read_byte is reading: the start byte
\* in the PREAMBLE branch, payload byte i in the START branch, the checksum
\* byte in the DATA branch
ByteIndex ==
    IF branch = Status.PREAMBLE THEN 1
    ELSE IF branch = Status.START THEN 2 + frames.decode.i
    ELSE 6

\* the pulse pair that read_logic_level is reading
CurPulse == wave.bytes[ByteIndex][frames.read_byte.i + 1]

\* read_logic_level, lines 215-217: the pin is low already
LevelLow ==
    /\ pc = "wait"
    /\ line = 215
    /\ \E r \in { level_low(WaitLow(Entered)) } :
          /\ Stored(r.h)
          /\ frames' = [frames EXCEPT !.read_logic_level = r.f]
    /\ WaitAt(217)
    /\ UNCHANGED << branch, exc, samplerate, target_data, interval_ms, state, datas,
                    datas_anchors, start_code, checksum_invalid, total,
                    pass_num, fail_num, is_statistic, value, anchor,
                    preable_anchor, wave, host_calls, cp >>

\* read_logic_level, lines 217-223: the rising edge, the low pulse
LevelHigh ==
    /\ Returns(217)
    /\ \E r \in { level_rose(interval_ms, Wait(Entered, CurPulse[1]),
                             frames.read_logic_level, total) } :
          /\ Stored(r.h)
          /\ frames' = [frames EXCEPT !.read_logic_level = r.f]
    /\ WaitAt(223)
    /\ UNCHANGED << branch, exc, samplerate, target_data, interval_ms, state, datas,
                    datas_anchors, start_code, checksum_invalid, total,
                    pass_num, fail_num, is_statistic, value, anchor,
                    preable_anchor, wave, host_calls, cp >>

\* the start byte deciding whether the packet is decoded any further
state_after_start_abort(result) ==
    IF result THEN Status.START ELSE Status.IDLE

\* Status.PREAMBLE branch: is_start()'s result is dropped, the state is
\* START whatever the start byte was
state_after_start(result) == Status.START

\* read_byte has returned rb to is_start, lines 196-210, called from the
\* Status.PREAMBLE branch, lines 323-324
StartByteRead(rb) ==
    /\ \E s \in { is_start(rb, total) } :
          /\ Stored(s.h)
          /\ start_code' = s.start_code
          /\ state' = state_after_start(s.result)
    /\ frames' = [frames EXCEPT !.read_logic_level = NoLevel,
                                !.read_byte = NoByte]
    /\ LoopTop
    /\ UNCHANGED << datas, datas_anchors, checksum_invalid, value, anchor >>

\* Status.START branch, the labels of a valid payload byte
data_label(v) == << "0x" \o Hex(v) >>

\* the loop body with an invalid byte recorded like a valid one
read_data_step_noskip(i, acc, r, pkt) ==
    [h |-> put_label(r.h, r.anchor,
                     IF i = 0 THEN Ann.FUNCTION ELSE Ann.ARGS,
                     << "Invalid" >>, pkt),
     value |-> r.value,
     anchor |-> r.anchor,
     label_start |-> IF i = 0 THEN r.anchor[1] ELSE acc.label_start,
     label_end |-> IF i = 3 THEN r.anchor[2] ELSE acc.label_end,
     datas |-> Append(acc.datas, r.value),
     datas_anchors |-> Append(acc.datas_anchors, r.anchor)]

\* Status.START branch, one iteration of "for i in range(4)", lines
\* 330-349: acc holds the locals label_start and label_end, self.datas and
\* self.datas_anchors; r is what read_byte returned
read_data_step(i, acc, r, pkt) ==
    [h |-> IF r.value # -1
           THEN put_label(r.h, r.anchor,
                          IF i = 0 THEN Ann.FUNCTION ELSE Ann.ARGS,
                          data_label(r.value), pkt)
           ELSE r.h,
     value |-> r.value,
     anchor |-> r.anchor,
     label_start |-> IF i = 0 THEN r.anchor[1] ELSE acc.label_start,
     label_end |-> IF i = 3 THEN r.anchor[2] ELSE acc.label_end,
     datas |-> IF r.value # -1 THEN Append(acc.datas, r.value)
               ELSE acc.datas,
     datas_anchors |-> IF r.value # -1
                       THEN Append(acc.datas_anchors, r.anchor)
                       ELSE acc.datas_anchors]

\* read_byte has returned rb to the Status.START branch, lines 330-353:
\* the byte is recorded; after the fourth the Data[0-3] annotation is put,
\* before that the next read_byte() waits
DataByteRead(rb) ==
    /\ \E a \in { read_data_step(frames.decode.i,
                     [label_start |-> frames.decode.label_start,
                      label_end |-> frames.decode.label_end,
                      datas |-> datas, datas_anchors |-> datas_anchors],
                     rb, total) } :
          /\ value' = a.value
          /\ anchor' = a.anchor
          /\ datas' = a.datas
          /\ datas_anchors' = a.datas_anchors
          /\ IF frames.decode.i < 3
             THEN /\ Stored(a.h)
                  /\ frames' = [is_preamble |-> frames.is_preamble,
                                read_logic_level |-> NoLevel,
                                read_byte |-> read_byte_enter,
                                decode |-> [i |-> frames.decode.i + 1,
                                            label_start |-> a.label_start,
                                            label_end |-> a.label_end]]
                  /\ WaitAt(215)
                  /\ UNCHANGED << state, branch >>
             ELSE /\ Stored(put_label(a.h, <<a.label_start, a.label_end>>,
                                      Ann.DATA, <<"Data[0-3]", "D">>, total))
                  /\ frames' = [is_preamble |-> frames.is_preamble,
                                read_logic_level |-> NoLevel,
                                read_byte |-> NoByte,
                                decode |-> [i |-> frames.decode.i,
                                            label_start |-> a.label_start,
                                            label_end |-> a.label_end]]
                  /\ state' = Status.DATA
                  /\ LoopTop
    /\ UNCHANGED << start_code, checksum_invalid >>

\* the checksum comparison made on the unmasked sum
checksum_match_nomask(buffer, v) == check_sum8_nomask(buffer) = v

\* Status.DATA branch: self.check_sum8(self.datas) == int.from_bytes(value)
checksum_match(buffer, v) == check_sum8(buffer) = v

\* Status.DATA branch, the labels of the checksum annotation
checksum_label(matched, v) ==
    IF matched THEN << "CHECKSUM 0x" \o Hex(v) >>
    ELSE << "CHECKSUM Invalid", "Invalid", "I" >>

\* read_byte has returned rb to the Status.DATA branch, lines 357-371
ChecksumByteRead(rb) ==
    /\ value' = rb.value
    /\ anchor' = rb.anchor
    /\ IF rb.value # -1
       THEN /\ checksum_invalid' = checksum_match(datas, rb.value)
            /\ Stored(put_label(rb.h, rb.anchor, Ann.DATA,
                                checksum_label(checksum_match(datas, rb.value),
                                               rb.value),
                                total))
       ELSE /\ checksum_invalid' = checksum_invalid
            /\ Stored(rb.h)
    /\ frames' = [frames EXCEPT !.read_logic_level = NoLevel,
                                !.read_byte = NoByte]
    /\ state' = Status.SUM
    /\ LoopTop
    /\ UNCHANGED << datas, datas_anchors, start_code >>

\* read_logic_level, lines 223-239, and what follows its return: the
\* falling edge that ends the pulse pair, the symbol, its Bit annotation
\* (read_byte, lines 263-278); then the next read_logic_level() of the
\* byte or, after the eighth symbol, the return of the byte to the branch
\* that reads it
LevelFalling ==
    /\ Returns(223)
    /\ \E b \in { read_byte_step(frames.read_byte,
                     level_fell(interval_ms, Wait(Entered, CurPulse[2]),
                                frames.read_logic_level, total),
                     total) } :
          IF b.f.i < BITS_PER_BYTE - 1
          THEN /\ Stored(b.h)
               /\ frames' = [frames EXCEPT
                               !.read_logic_level = NoLevel,
                               !.read_byte = [b.f EXCEPT !.i = b.f.i + 1]]
               /\ WaitAt(215)
               /\ UNCHANGED << state, branch, datas, datas_anchors,
                               start_code, checksum_invalid, value, anchor >>
          ELSE \E rb \in { read_byte_return(b.h, b.f) } :
                  IF branch = Status.PREAMBLE THEN StartByteRead(rb)
                  ELSE IF branch = Status.START THEN DataByteRead(rb)
                  ELSE ChecksumByteRead(rb)
    /\ UNCHANGED << exc, samplerate, target_data, interval_ms, total,
                    pass_num, fail_num, is_statistic, preable_anchor, wave,
                    host_calls, cp >>

\* int.from_bytes(x, 'big') raises TypeError when x is an int, not bytes:
\* the int that reaches it is the invalid marker -1 (the 0 that reset()
\* assigns to self.start_code is overwritten by is_start before the SUM
\* branch of a packet reads it)
from_bytes_raises(x) == x = -1

\* Status.SUM branch: whether evaluating the pass condition raises.  Python
\* evaluates "a and b and c" left to right and stops at the first false.
compare_raises(read_bytes, target_bytes, checksum, start) ==
    /\ read_bytes = target_bytes
    /\ checksum
    /\ from_bytes_raises(start)

\* the pass condition with the payload compared as the low-order bytes of
\* the target (as numbers rather than as byte strings of equal length)
packet_passes_suffix(read_bytes, target_bytes, checksum, start) ==
    /\ Len(read_bytes) <= Len(target_bytes)
    /\ read_bytes = SubSeq(target_bytes,
                           Len(target_bytes) - Len(read_bytes) + 1,
                           Len(target_bytes))
    /\ checksum
    /\ start = START_CODE

\* the pass condition with a valid preamble required as well
packet_passes_preamble(read_bytes, target_bytes, checksum, start) ==
    /\ read_bytes = target_bytes
    /\ checksum
    /\ start = START_CODE
    /\ preable_anchor[2] - preable_anchor[1]
         = Samples(PREAMBLE_LOW_US) + Samples(PREAMBLE_HIGH_US)

\* the pass condition with the start code left out
packet_passes_nostart(read_bytes, target_bytes, checksum, start) ==
    /\ read_bytes = target_bytes
    /\ checksum

\* Status.SUM branch: the pass condition
packet_passes(read_bytes, target_bytes, checksum, start) ==
    /\ read_bytes = target_bytes
    /\ checksum
    /\ start = START_CODE

\* the decimal digits of n with at least two places
TwoDigits(n) == IF n < 10 THEN "0" \o ToString(n) ELSE ToString(n)

\* '{:.2f}'.format(pass_num / total * 100): the double p / t, times 100.0,
\* and the decimal with two places nearest to that double, ties to even
Rate2f(p, t) ==
    LET x == FMul(FromRatio(p, t), FromInt(100))
    IN IF IsZero(x) THEN "0.00"
       ELSE LET n == BigMul(x.m, BigOfInt(100))
                k == 0 - x.e
                h0 == ShiftRight(n, k)
                half == BitAt(n, k - 1) = 1
                sticky == LowBitsSet(n, k - 1)
                up == half /\ (sticky \/ (h0[1] % 2) = 1)
                h == h0[1] + LIMB * h0[2] + (IF up THEN 1 ELSE 0)
            IN ToString(h \div 100) \o "." \o TwoDigits(h % 100)

\* line 398: the words that open the format string of the summary
\* annotation, its characters outside ASCII written as \uXXXX escapes
STAT_PREFIX ==
    "\\u7edf\\u8ba1\\u6570\\u636e(\\u5931\\u8d25\\u6b21/\\u603b\\u6b21): \\u672c\\u6b21"

\* Status.SUM branch: the text of the summary annotation
stat_label(result_str, fails, tot, passes) ==
    << STAT_PREFIX \o result_str \o ",  " \o ToString(fails) \o "/"
       \o ToString(tot) \o ",  " \o Rate2f(passes, tot) \o "%" >>

\* the counting of total skipped when statistics are off
total_after_ifstat(tot, stat) == IF stat THEN tot + 1 ELSE tot

\* Status.SUM branch: self.total += 1
total_after(tot, stat) == tot + 1

\* Status.SUM branch, lines 375-403: the closing rising edge, the
\* statistics
PacketEnd ==
    /\ Returns(375)
    /\ LET w == Wait(Entered, wave.tail)
           \* self.es = self.samplenum
           h == [w EXCEPT !.es = w.samplenum]
           tot == total_after(total, is_statistic)
           target_bytes == to_bytes4(target_data)
           ok == packet_passes(datas, target_bytes, checksum_invalid, start_code)
           passes == IF ok THEN pass_num + 1 ELSE pass_num
           fails == IF ok THEN fail_num ELSE fail_num + 1
       IN /\ value' = 1
          /\ total' = tot
          /\ line' = 0
          /\ branch' = NO_ATTR
          /\ IF ~is_statistic
             THEN /\ Stored(h)
                  /\ pc' = "loop"
                  /\ state' = Status.IDLE
                  /\ UNCHANGED << exc, pass_num, fail_num >>
             ELSE IF to_bytes_raises(target_data)
             THEN /\ Stored(h)
                  /\ pc' = "raised"
                  /\ exc' = "OverflowError"
                  /\ UNCHANGED << state, pass_num, fail_num >>
             ELSE IF compare_raises(datas, target_bytes, checksum_invalid,
                                    start_code)
             THEN /\ Stored(h)
                  /\ pc' = "raised"
                  /\ exc' = "TypeError"
                  /\ UNCHANGED << state, pass_num, fail_num >>
             ELSE /\ pass_num' = passes
                  /\ fail_num' = fails
                  /\ Stored(put_label(h, <<preable_anchor[1], anchor[2]>>,
                               Ann.DEBUG,
                               stat_label(IF ok THEN "PASS" ELSE "FAIL",
                                          fails, tot, passes),
                               total))
                  /\ pc' = "loop"
                  /\ state' = Status.IDLE
                  /\ UNCHANGED exc
    /\ UNCHANGED << samplerate, target_data, interval_ms, datas,
                    datas_anchors, start_code, checksum_invalid, is_statistic,
                    anchor, preable_anchor, frames, wave, host_calls, cp >>

Next ==
    Metadata \/ Putx \/ Reset \/ DecodeStart \/ Idle \/ Preamble \/ Start
    \/ Data \/ Sum \/ PreambleFalling \/ PreambleRising \/ PreambleEnd
    \/ LevelLow \/ LevelHigh \/ LevelFalling \/ PacketEnd

Spec == Init /\ [][Next]_vars

\* ------------------------------------------------------------------------
\* The decoder fed with well-formed packets only (round trip)
\* ------------------------------------------------------------------------

\* the payloads encoded: every byte position takes several values
RoundTripPayloads ==
    { <<a, b, c, d>> : a \in {0, 165}, b \in {1, 76},
                       c \in {2, 255}, d \in {4, 128} }

RoundTripSignals == { EncodePacket(p) : p \in RoundTripPayloads }

\* the payloads encoded after the first packet of a session
RoundTripFollow ==
    { EncodePacket(p) : p \in { <<0, 1, 2, 4>>, <<165, 76, 255, 128>>,
                                <<0, 76, 2, 128>>, <<165, 1, 255, 4>> } }

IdleRoundTrip ==
    IdleOn(IF total = 0 THEN RoundTripSignals ELSE RoundTripFollow)

NextRoundTrip ==
    Metadata \/ Reset \/ DecodeStart \/ IdleRoundTrip \/ Preamble \/ Start
    \/ Data \/ Sum \/ PreambleFalling \/ PreambleRising \/ PreambleEnd
    \/ LevelLow \/ LevelHigh \/ LevelFalling \/ PacketEnd

SpecRoundTrip == Init /\ [][NextRoundTrip]_vars
\* ------------------------------------------------------------------------
\* check_pluse_time on its own
\* ------------------------------------------------------------------------

\* the longest measured time tried microsecond by microsecond
MaxMeasure == 1700

\* the nominal times the decoder classifies against, in microseconds
NominalUs == { PREAMBLE_LOW_US, PREAMBLE_HIGH_US, LOGIC_LOW_US, ONE_HIGH_US,
               ZERO_HIGH_US }

\* the time constant of the decoder for a nominal time in microseconds
TimeOf(us) ==
    IF us = PREAMBLE_LOW_US THEN TIME_PREAMBLE_LOW_MS
    ELSE IF us = PREAMBLE_HIGH_US THEN TIME_PREAMBLE_HIGH_MS
    ELSE IF us = LOGIC_LOW_US THEN TIME_LOGIC_LOW
    ELSE IF us = ONE_HIGH_US THEN TIME_ONE_HIGH
    ELSE TIME_ZERO_HIGH

\* the measured times tried, in microseconds: every one up to MaxMeasure,
\* every tenth of a millisecond up to 9 ms, and those next to the bounds of
\* the two preamble times
Measures ==
    (0..MaxMeasure) \cup { 100 * k : k \in 0..90 }
    \cup { (us * f) \div 10 + d : us \in {PREAMBLE_LOW_US, PREAMBLE_HIGH_US},
                                  f \in {9, 11}, d \in {-1, 0, 1} }

\* a measured time of m microseconds as the double m / 1000 (milliseconds)
MeasureTimes == Table([m \in Measures |-> FromRatio(m, 1000)])

\* the arguments of a call check_pluse_time(m, t), tol left to its default
InitClassify ==
    /\ InitDecoder
    /\ cp \in { [measure |-> m, target |-> t, tol |-> TIME_TOL,
                 called |-> FALSE, result |-> FALSE] :
                m \in Measures, t \in NominalUs }

\* the call: the function assigns to nothing but its result
Classify ==
    /\ ~cp.called
    /\ cp.target # 0
    /\ cp' = [cp EXCEPT !.called = TRUE,
                        !.result = check_pluse_time(MeasureTimes[cp.measure],
                                                    TimeOf(cp.target), cp.tol)]
    /\ UNCHANGED << pc, line, branch, exc, samplerate, target_data,
                    interval_ms, state, ss, es, samplenum, datas,
                    datas_anchors, start_code, checksum_invalid, total,
                    pass_num, fail_num, is_statistic, value, anchor,
                    preable_anchor, frames, wave, left, pos, out,
                    host_calls >>

SpecClassify == InitClassify /\ [][Classify]_vars

\* ------------------------------------------------------------------------
\* The bit decoder: sessions of decode() on captures that hold a preamble
\* and one pulse pair, the first symbol of the start byte.  The pair is
\* every one of up to MaxLowSamples low and MaxHighSamples high samples, and
\* every pair of the numbers of samples next to the bounds of the windows
\* at FAST_SAMPLERATE.
\* ------------------------------------------------------------------------

MaxLowSamples == 40

MaxHighSamples == 85

\* the pulse pairs tried
BitPulses ==
    ((1..MaxLowSamples) \X (1..MaxHighSamples))
    \cup
    (CountsNear(LOGIC_LOW_US, FAST_SAMPLERATE)
     \X (CountsNear(ZERO_HIGH_US, FAST_SAMPLERATE)
         \cup CountsNear(ONE_HIGH_US, FAST_SAMPLERATE)))

\* the captures: the packet of PayloadA with the first pulse pair of its
\* start byte replaced, cut after that pair (the 3 edges of the preamble
\* and the 2 of the pair)
BitSignals ==
    { [EncodePacket(PayloadA) EXCEPT
         !.bytes[1] = WithPulse(EncodeByte(START_CODE), 1, p),
         !.edges = 3 + 2] : p \in BitPulses }

\* a session with statistics off
InitBit == Init /\ target_data = 0

\* Status.IDLE branch on these captures
IdleBit == IdleOn(BitSignals)

\* metadata() before decode() and at any wait(); decode() up to the wait()
\* at which the capture ends
NextBit ==
    \/ Metadata
    \/ DecodeStart
    \/ IdleBit
    \/ PreambleFalling
    \/ PreambleRising
    \/ PreambleEnd
    \/ Preamble
    \/ LevelLow
    \/ LevelHigh
    \/ LevelFalling

SpecBit == InitBit /\ [][NextBit]_vars

\* ------------------------------------------------------------------------
\* Properties
\* ------------------------------------------------------------------------

Last(q) == q[Len(q)]

\* sum of a list of bytes modulo 256
SumMod256(bs) ==
    LET S[i \in 0..Len(bs)] == IF i = 0 THEN 0 ELSE S[i - 1] + bs[i]
    IN S[Len(bs)] % 256

\* n samples at rate (samples per second) last between 90 % and 110 % of
\* nominal_us microseconds, both included, in exact arithmetic
SamplesMatch(n, nominal_us, rate) ==
    /\ nominal_us * 9 * (rate \div 1000) <= n * 10000
    /\ n * 10000 <= nominal_us * 11 * (rate \div 1000)

\* the sample rate decode() computed self.interval_ms from
DecodeRate == CHOOSE r \in PulseRates : Intervals[r] = interval_ms

\* the window [90 %, 110 %] of a nominal time, in samples of the current run
InWindow(samples, nominal_us) == SamplesMatch(samples, nominal_us, DecodeRate)

\* the host has called neither putx() nor reset() in this session while
\* decode() was in a wait(): the annotations are those decode() has put
\* and the attributes are as decode() left them
Undisturbed == host_calls = 0

\* decode() is in the wait() for the closing rising edge and the step is
\* the return of that wait()
ClosingEdge == pc = "wait" /\ line = 375 /\ pc' \in {"loop", "raised"}

\* a pulse pair read as a symbol: 0, 1 or -1
SymbolOf(pulse) ==
    IF ~InWindow(pulse[1], LOGIC_LOW_US) THEN -1
    ELSE IF InWindow(pulse[2], ZERO_HIGH_US) THEN 0
    ELSE IF InWindow(pulse[2], ONE_HIGH_US) THEN 1
    ELSE -1

\* the packet being decoded is the one numbered total (from 0)
InPacket == pc = "loop" /\ state # Status.IDLE /\ Undisturbed

\* the Bit annotations put for the packet being decoded
CurBits == SelectSeq(out, LAMBDA a : a.pkt = total /\ a.ann = Ann.BIT)

\* the bytes of the packet read so far: 1 start, 4 payload, 1 checksum
BytesRead ==
    IF state = Status.START THEN 1
    ELSE IF state = Status.DATA THEN 5
    ELSE IF state = Status.SUM THEN 6
    ELSE 0

\* C1: with statistics enabled, a packet that completes is counted as a pass
\* exactly when (a) its payload bytes equal the 4-byte big-endian target,
\* (b) its own checksum byte decoded as valid and equals the payload sum
\* modulo 256 and (c) its start byte is valid and equals 0x4C; otherwise it
\* is counted as a fail.  In the wait() for the closing edge, value is the
\* checksum byte of the packet (or -1), datas its payload and start_code its
\* start byte.
C1_PassIffPayloadChecksumStart ==
    [][ (ClosingEdge /\ is_statistic /\ pc' = "loop")
        => IF /\ datas = to_bytes4(target_data)
              /\ value # -1
              /\ value = SumMod256(datas)
              /\ start_code = START_CODE
           THEN pass_num' = pass_num + 1 /\ fail_num' = fail_num
           ELSE fail_num' = fail_num + 1 /\ pass_num' = pass_num ]_vars

\* C2: once the sample rate is known nothing is fatal: decode() is left by
\* an exception only when it is entered without a sample rate, whatever the
\* signal and the target_data setting; otherwise it stops only in a wait()
\* at the end of the capture.
C2_NoDefectIsFatal ==
    /\ pc = "raised" <=> exc # "none"
    /\ pc = "raised" => exc \in {"SamplerateError", "AttributeError"}

\* C3: the Preamble annotation is labelled Preamble when the low pulse
\* matches 4 ms and the high pulse 8 ms within 10 %, and Invalid otherwise;
\* in both cases the machine goes on to the start byte.
C3_PreambleLabelledByValidity ==
    (pc = "loop" /\ state = Status.PREAMBLE /\ Undisturbed)
    => /\ Last(out).ann = Ann.PREAMBLE
       /\ Last(out).ss = preable_anchor[1] /\ Last(out).es = preable_anchor[2]
       /\ IF /\ InWindow(wave.pre[1], PREAMBLE_LOW_US)
             /\ InWindow(wave.pre[2], PREAMBLE_HIGH_US)
          THEN value = 1 /\ Last(out).label[1] = "Preamble"
          ELSE value = -1 /\ Last(out).label[1] = "Invalid"

\* the state that follows s in IDLE, PREAMBLE, START, DATA, SUM, IDLE, ...
Succ(s) == (s + 1) % 5

\* C4: the states are visited in the cyclic order IDLE, PREAMBLE, START,
\* DATA, SUM, IDLE: within a run of decode() a step never changes the state
\* to anything but its successor, every branch is entered in the state it
\* is the branch of, and every branch that comes back to the top of the
\* loop has moved to the successor, whatever the preamble, start byte,
\* payload and checksum were.  (reset() puts the state back to IDLE.)
C4_CyclicOrder ==
    [][ (pc' # "start" /\ host_calls' = 0) =>
          /\ state' # state => state' = Succ(state)
          /\ pc' = "wait" => branch' = state'
          /\ (pc = "wait" /\ pc' = "loop") => state' = Succ(state) ]_vars

\* a cycle was completed although its start byte was Invalid
C4_Witness ==
    /\ pc = "loop" /\ state = Status.IDLE /\ total = 1
    /\ start_code = -1
    /\ Undisturbed

\* C5: read_byte reads exactly 8 symbols and puts exactly 8 Bit annotations,
\* each labelled by its own pulse pair alone (0, 1 or Invalid); the byte is
\* Invalid exactly when at least one of its 8 symbols is.  Checked for each
\* of the six bytes of the packet being decoded.
C5_EightBitsPerByte ==
    InPacket =>
      /\ Len(CurBits) = 8 * BytesRead
      /\ \A j \in 1..BytesRead : \A k \in 1..8 :
           LET b == CurBits[8 * (j - 1) + k]
               sym == SymbolOf(wave.bytes[j][k])
           IN /\ b.label[1] = (IF sym = 1 THEN "1"
                               ELSE IF sym = 0 THEN "0" ELSE "Invalid")
              /\ b.ss < b.es
      /\ BytesRead >= 1 =>
           (start_code = -1 <=> \E k \in 1..8 : SymbolOf(wave.bytes[1][k]) = -1)
      /\ BytesRead >= 5 =>
           Len(datas) = Cardinality({ j \in 2..5 :
                          \A k \in 1..8 : SymbolOf(wave.bytes[j][k]) # -1 })
      /\ BytesRead = 6 =>
           (value = -1 <=> \E k \in 1..8 : SymbolOf(wave.bytes[6][k]) = -1)

\* the start byte has been read, its 3rd symbol alone is out of tolerance:
\* the byte is Invalid and the 7 other bits are put as valid bits
C5_Witness ==
    /\ pc = "loop" /\ state = Status.START
    /\ start_code = -1
    /\ Len(CurBits) = 8
    /\ CurBits[3].label[1] = "Invalid"
    /\ \A k \in (1..8) \ {3} : CurBits[k].label[1] \in {"0", "1"}

\* C6: with four valid payload bytes and a valid checksum byte c, the
\* checksum flag of the packet is true exactly when c is the payload sum
\* modulo 256; the checksum annotation is CHECKSUM 0xNN when it is and
\* CHECKSUM Invalid when it is not.
C6_ChecksumFlag ==
    (pc = "loop" /\ state = Status.SUM /\ Len(datas) = 4 /\ value # -1)
    => /\ checksum_invalid <=> (value = (datas[1] + datas[2] + datas[3] + datas[4]) % 256)
       /\ Last(out).ann = Ann.DATA
       /\ Last(out).ss = anchor[1] /\ Last(out).es = anchor[2]
       /\ Last(out).label[1] = (IF value = (datas[1] + datas[2] + datas[3] + datas[4]) % 256
                                THEN "CHECKSUM 0x" \o Hex(value)
                                ELSE "CHECKSUM Invalid")

\* a payload whose sum exceeds 255 was accepted with its checksum
C6_Witness ==
    /\ pc = "loop" /\ state = Status.SUM
    /\ datas = PayloadB /\ value = 8 /\ checksum_invalid
    /\ Last(out).label[1] = "CHECKSUM 0x08"

\* the pulse train of each round-trip payload
EncodedRoundTrip == [ p \in RoundTripPayloads |-> EncodePacket(p) ]

\* C7: round trip.  A pulse train that encodes preamble, start byte 0x4C,
\* a payload most significant bit first and the checksum sum(payload) mod
\* 256 at nominal timings (the timings are nominal at SAMPLERATE) decodes to
\* a valid preamble, start code 0x4C, the payload bytes in order and a true
\* checksum flag.
C7_RoundTrip ==
    \A p \in RoundTripPayloads :
      (pc = "loop" /\ interval_ms = Intervals[SAMPLERATE]
       /\ wave = EncodedRoundTrip[p]) =>
         /\ state \in {Status.PREAMBLE, Status.START} => value = 1
         /\ state = Status.PREAMBLE => Last(out).label[1] = "Preamble"
         /\ state \in {Status.START, Status.DATA, Status.SUM} => start_code = START_CODE
         /\ state \in {Status.DATA, Status.SUM} => datas = p
         /\ state = Status.SUM =>
              /\ checksum_invalid
              /\ value = (p[1] + p[2] + p[3] + p[4]) % 256
         /\ state = Status.IDLE =>
              /\ start_code = START_CODE
              /\ datas = p
              /\ checksum_invalid

\* the closing rising edge of an encoded packet has been consumed
C7_Witness ==
    /\ pc = "loop" /\ state = Status.IDLE /\ total = 1
    /\ interval_ms = Intervals[SAMPLERATE]
    /\ wave = EncodedRoundTrip[<<165, 76, 255, 128>>]
    /\ datas = <<165, 76, 255, 128>>
    /\ checksum_invalid

\* C8: statistics accounting.  Every step that consumes the terminating
\* rising edge of a packet adds exactly one to total, statistics enabled or
\* not; statistics are enabled exactly when target_data is not zero; when
\* enabled, the step adds one to exactly one of pass_num and fail_num and
\* pass_num + fail_num = total whenever the machine is back in IDLE; when
\* disabled, pass_num and fail_num stay 0.
C8_StatisticsAccounting ==
    [][ ClosingEdge =>
          /\ total' = total + 1
          /\ is_statistic <=> (target_data # 0)
          /\ IF is_statistic
             THEN /\ \/ pass_num' = pass_num + 1 /\ fail_num' = fail_num
                     \/ fail_num' = fail_num + 1 /\ pass_num' = pass_num
                  /\ state' = Status.IDLE => pass_num' + fail_num' = total'
             ELSE pass_num' = 0 /\ fail_num' = 0 ]_vars

\* C9: check_pluse_time(measured, nominal) with the default tolerance of
\* 10 % answers true exactly when 90 % of nominal <= measured <= 110 % of
\* nominal, both bounds included (a duration exactly at 90 % or at 110 %
\* matches, one below 90 % or above 110 % does not), and the call leaves the
\* decoder as it was constructed.  Times are in microseconds.
C9_InclusiveTolerance ==
    cp.called =>
      /\ cp.result <=> /\ cp.target * 9 <= cp.measure * 10
                       /\ cp.measure * 10 <= cp.target * 11
      /\ cp.measure * 10 = cp.target * 9 => cp.result
      /\ cp.measure * 10 = cp.target * 11 => cp.result
      /\ cp.measure * 10 < cp.target * 9 => ~cp.result
      /\ cp.measure * 10 > cp.target * 11 => ~cp.result
      /\ pc = "start" /\ exc = "none" /\ state = Status.IDLE
      /\ interval_ms = NO_INTERVAL /\ samplenum = NO_ATTR /\ ss = 0 /\ es = 0
      /\ total = 0 /\ pass_num = 0 /\ fail_num = 0
      /\ datas = << >> /\ out = << >> /\ ~checksum_invalid

\* C10 as stated: every annotation decode() puts has ss <= es and, within
\* one packet, each annotation put starts no earlier than the annotation
\* put just before it ends, whatever the classes of the two.
C10_SpansDisjointAcrossClasses ==
    Undisturbed =>
      \A i \in 1..Len(out) :
        /\ out[i].ss <= out[i].es
        /\ (i > 1 /\ out[i - 1].pkt = out[i].pkt) => out[i - 1].es <= out[i].ss

\* the annotations put for the packet that was annotated last, in the order
\* they were put; every packet is that packet while it is being decoded
LastSpans ==
    IF out = << >> THEN << >>
    ELSE SelectSeq(out, LAMBDA a : a.pkt = out[Len(out)].pkt)

\* C10 amended: every annotation has ss <= es; within one packet the
\* annotations are put in the order of their end samples (each ends no
\* earlier than those put before it); and each starts no earlier than the
\* annotations of its own class put before it end.  A byte or packet level
\* annotation is put after the Bit annotations it covers.
C10_SpansOrderedPerClass ==
    LET q == LastSpans
    IN Undisturbed => \A i \in 1..Len(q) :
         /\ q[i].ss <= q[i].es
         /\ \A j \in 1..(i - 1) :
              /\ q[j].es <= q[i].es
              /\ q[j].ann = q[i].ann => q[j].es <= q[i].ss

\* a packet was decoded to its statistics annotation, and its Start
\* annotation was put right after a Bit annotation that it covers
C10_Witness ==
    /\ pc = "loop" /\ state = Status.IDLE /\ total = 1
    /\ Undisturbed
    /\ \E i \in 1..Len(out) : out[i].ann = Ann.DEBUG
    /\ \E i \in 2..Len(out) :
         /\ out[i].ann = Ann.START /\ out[i - 1].ann = Ann.BIT
         /\ out[i].pkt = out[i - 1].pkt
         /\ out[i].ss < out[i - 1].ss
    /\ \E i \in 1..Len(out) : out[i].ann = Ann.FUNCTION

\* the 48 pulse pairs of the packet's six bytes, in the order of the signal
AllPulses ==
    wave.bytes[1] \o wave.bytes[2] \o wave.bytes[3] \o wave.bytes[4]
    \o wave.bytes[5] \o wave.bytes[6]

\* the samples of the falling edges of the packet: FallingEdges[k] is the
\* falling edge that ends the k-th pulse pair (k = 0: the one that ends the
\* preamble)
FallingEdges ==
    LET P == AllPulses
        F[i \in 0..48] ==
          IF i = 0 THEN preable_anchor[1] + wave.pre[1] + wave.pre[2]
          ELSE F[i - 1] + P[i][1] + P[i][2]
    IN [i \in 0..48 |-> F[i]]

\* the edges of a packet consumed when the machine has come to state s:
\* 3 for the preamble, 2 for each bit read, 1 for the packet end
EdgesConsumed(s) ==
    IF s = Status.PREAMBLE THEN 3
    ELSE IF s = Status.IDLE THEN 3 + 2 * 48 + 1
    ELSE 3 + 2 * 8 * BytesRead

\* the edges of a packet consumed when decode() has come to a wait(): none
\* at the first wait of the preamble, one more at each wait for an edge
\* after it, none between two bits
EdgesBeforeWait ==
    IF line = 166 THEN 0
    ELSE IF line = 169 THEN 1
    ELSE IF line = 176 THEN 2
    ELSE IF line = 375 THEN 3 + 2 * 48
    ELSE 3 + 2 * (8 * (ByteIndex - 1) + frames.read_byte.i)
         + (IF line = 223 THEN 1 ELSE 0)

\* C11: every state consumes a fixed number of edges, whatever the pulse
\* durations and the decoded values are.  The preamble ends at the third
\* edge after the idle line (falling, rising, falling); the k-th Bit
\* annotation of a packet runs from the falling edge that ended the pulse
\* pair before it to the falling edge that ends its own pair; after n bytes
\* the decoder stands at the falling edge that ends pulse pair 8n; and the
\* packet end is the one rising edge after the 48th pair.  In every wait()
\* the number of edges consumed so far is given by the place of the wait()
\* alone.
C11_FixedEdgesPerState ==
  /\ pc = "wait" => left = wave.edges - EdgesBeforeWait
  /\ (pc = "loop" /\ wave # NoWave /\ Undisturbed) =>
      LET E == FallingEdges
          bits == CurBits
      IN /\ preable_anchor[2] = E[0]
         /\ left = wave.edges - EdgesConsumed(state)
         /\ state = Status.PREAMBLE => samplenum = E[0]
         /\ state \in {Status.START, Status.DATA, Status.SUM} =>
              samplenum = E[8 * BytesRead]
         /\ \A k \in 1..Len(bits) :
              /\ bits[k].ss = E[k - 1]
              /\ bits[k].es = E[k]
         /\ state = Status.IDLE => samplenum = E[48] + wave.tail

\* the checksum byte has been read of a packet whose first payload byte
\* starts with a low pulse one sample long: the 9th Bit is Invalid and the
\* decoder stands at the falling edge that ends the 48th pulse pair
C11_Witness ==
    /\ pc = "loop" /\ state = Status.SUM
    /\ Undisturbed
    /\ wave.bytes[2][1][1] = 1
    /\ Len(CurBits) = 48
    /\ CurBits[9].label[1] = "Invalid"
    /\ CurBits[10].label[1] \in {"0", "1"}
    /\ samplenum = FallingEdges[48]
    /\ left = 1

\* C12: bit classification.  A pulse pair is Invalid when its low pulse is
\* not within 10 % of 0.64 ms; otherwise it is 0 when its high pulse is
\* within 10 % of 0.48 ms, 1 when it is within 10 % of 1.44 ms and Invalid
\* when it is neither.  No high pulse is within both windows.  Checked on
\* the Bit annotation read_byte puts for the first pulse pair of the start
\* byte, at the sample rate decode() computed self.interval_ms from.
C12_BitClassification ==
    (Undisturbed /\ wave # NoWave /\ Len(CurBits) >= 1) =>
      LET pulse == wave.bytes[1][1]
          low == InWindow(pulse[1], LOGIC_LOW_US)
          zero == InWindow(pulse[2], ZERO_HIGH_US)
          one == InWindow(pulse[2], ONE_HIGH_US)
      IN /\ CurBits[1].label = (IF ~low THEN <<"Invalid", "I">>
                                ELSE IF zero THEN <<"0">>
                                ELSE IF one THEN <<"1">>
                                ELSE <<"Invalid", "I">>)
         /\ ~(zero /\ one)

\* the bit a Bit annotation shows
BitOf(a) == IF a.label[1] = "1" THEN 1 ELSE 0

\* the j-th byte of the packet (1 start, 2..5 payload, 6 checksum) had
\* eight valid symbols
ByteValid(bits, j) ==
    \A k \in 1..8 : bits[8 * (j - 1) + k].label[1] \in {"0", "1"}

\* sum over i in 0..7 of bit_i * 2^(7-i) for the j-th byte of the packet
Packed(bits, j) ==
    LET S[i \in 0..8] ==
          IF i = 0 THEN 0
          ELSE S[i - 1] + BitOf(bits[8 * (j - 1) + i]) * Pow2(8 - i)
    IN S[8]

\* the place in self.datas of payload byte j (2..5): the number of valid
\* bytes among payload bytes 2..j
PlaceInDatas(bits, j) == Cardinality({ m \in 2..j : ByteValid(bits, m) })

\* C13: a byte whose 8 symbols are all valid has the value of its bits
\* packed most significant bit first, sum of bit_i * 2^(7-i) with bit_0 the
\* first symbol decoded, a value in 0..255; its span runs from the start of
\* its first Bit span to the end of its eighth.  Checked for the start
\* byte, the four payload bytes and the checksum byte of the packet being
\* decoded.
C13_MsbFirstPacking ==
    InPacket =>
      LET bits == CurBits
      IN /\ (BytesRead >= 1 /\ ByteValid(bits, 1)) =>
              /\ start_code = Packed(bits, 1)
              /\ start_code \in 0..255
              /\ \E a \in { out[i] : i \in 1..Len(out) } :
                   /\ a.pkt = total /\ a.ann = Ann.START
                   /\ a.ss = bits[1].ss /\ a.es = bits[8].es
         /\ BytesRead >= 5 =>
              \A j \in 2..5 : ByteValid(bits, j) =>
                /\ datas[PlaceInDatas(bits, j)] = Packed(bits, j)
                /\ datas[PlaceInDatas(bits, j)] \in 0..255
                /\ datas_anchors[PlaceInDatas(bits, j)]
                     = << bits[8 * (j - 1) + 1].ss, bits[8 * j].es >>
         /\ (BytesRead = 6 /\ ByteValid(bits, 6)) =>
              /\ value = Packed(bits, 6)
              /\ value \in 0..255
              /\ anchor = << bits[41].ss, bits[48].es >>

\* the start byte 0x4C = 01001100 was read: its mirror image would be 0x32
C13_Witness ==
    /\ pc = "loop" /\ state = Status.START
    /\ ByteValid(CurBits, 1)
    /\ << BitOf(CurBits[1]), BitOf(CurBits[2]), BitOf(CurBits[3]),
          BitOf(CurBits[4]), BitOf(CurBits[5]), BitOf(CurBits[6]),
          BitOf(CurBits[7]), BitOf(CurBits[8]) >> = <<0, 1, 0, 0, 1, 1, 0, 0>>
    /\ start_code = 76

\* the annotations of class cls put for the packet being decoded
CurAnns(cls) == SelectSeq(out, LAMBDA a : a.pkt = total /\ a.ann = cls)

\* the payload bytes (2..5 of the packet) that had eight valid symbols, in
\* the order of the signal
ValidPayloadBytes(bits) ==
    LET V[j \in 1..5] ==
          IF j = 1 THEN << >>
          ELSE IF ByteValid(bits, j) THEN Append(V[j - 1], j) ELSE V[j - 1]
    IN V[5]

\* C14: the Data phase reads exactly four bytes (32 Bit annotations after
\* the 8 of the start byte).  Afterwards self.datas is exactly the valid ones
\* of these four bytes, in order, at most 4 and none from an earlier packet;
\* a Function annotation exists exactly for a valid byte in slot 0 and an
\* Args annotation exactly for each valid byte in slots 1-3, an invalid byte
\* gets neither; and there is exactly one Data[0-3] annotation, from the
\* start of the first byte to the end of the fourth.
C14_DataPhase ==
    (pc = "loop" /\ state = Status.DATA /\ Undisturbed) =>
      LET bits == CurBits
          valid == ValidPayloadBytes(bits)
          fn == CurAnns(Ann.FUNCTION)
          args == CurAnns(Ann.ARGS)
          agg == CurAnns(Ann.DATA)
          fnBytes == SelectSeq(valid, LAMBDA j : j = 2)
          argBytes == SelectSeq(valid, LAMBDA j : j > 2)
          SpanOf(j) == << bits[8 * (j - 1) + 1].ss, bits[8 * j].es >>
      IN /\ Len(bits) = 8 + 4 * 8
         /\ Len(datas) <= 4
         /\ datas = [n \in 1..Len(valid) |-> Packed(bits, valid[n])]
         /\ datas_anchors = [n \in 1..Len(valid) |-> SpanOf(valid[n])]
         /\ Len(fn) = Len(fnBytes)
         /\ \A n \in 1..Len(fn) :
              /\ <<fn[n].ss, fn[n].es>> = SpanOf(fnBytes[n])
              /\ fn[n].label = << "0x" \o Hex(Packed(bits, fnBytes[n])) >>
         /\ Len(args) = Len(argBytes)
         /\ \A n \in 1..Len(args) :
              /\ <<args[n].ss, args[n].es>> = SpanOf(argBytes[n])
              /\ args[n].label = << "0x" \o Hex(Packed(bits, argBytes[n])) >>
         /\ Len(agg) = 1
         /\ agg[1].label[1] = "Data[0-3]"
         /\ agg[1].ss = bits[9].ss /\ agg[1].es = bits[40].es
         /\ Last(out) = agg[1]

\* the second packet of a session lost its second payload byte: three
\* bytes recorded, one Function and two Args annotations
C14_Witness ==
    /\ pc = "loop" /\ state = Status.DATA /\ total = 1
    /\ datas = <<1, 3, 4>>
    /\ Len(CurAnns(Ann.FUNCTION)) = 1
    /\ Len(CurAnns(Ann.ARGS)) = 2
    /\ ~ByteValid(CurBits, 3)

\* the annotations a step puts
NewAnns == SubSeq(out', Len(out) + 1, Len(out'))

\* the checksum annotations among the annotations a step puts
NewChecksumAnns == SelectSeq(NewAnns, LAMBDA a : a.ann = Ann.DATA)

\* C15, the checksum byte read: the state becomes SUM in any case; when the
\* byte is Invalid no comparison is made (the flag is left as it was) and no
\* checksum annotation is put; when it is valid exactly one is put,
\* CHECKSUM 0xNN or CHECKSUM Invalid.
C15_ChecksumByteRead ==
    (pc = "wait" /\ branch = Status.DATA /\ pc' = "loop") =>
       /\ state' = Status.SUM
       /\ IF value' = -1
          THEN /\ Len(NewChecksumAnns) = 0
               /\ checksum_invalid' = checksum_invalid
          ELSE /\ Len(NewChecksumAnns) = 1
               /\ NewChecksumAnns[1].label[1]
                    \in {"CHECKSUM 0x" \o Hex(value'), "CHECKSUM Invalid"}

\* C15, the packet completed: after an Invalid checksum byte the closing
\* rising edge, when the capture holds it, brings the machine back to IDLE.
C15_PacketCompletes ==
    (ClosingEdge /\ value = -1) =>
       /\ state' = Status.IDLE
       /\ pc' = "loop"

\* C15: an Invalid checksum byte is neither compared nor annotated and the
\* packet is still completed; a valid checksum byte gets exactly one
\* checksum annotation.
C15_InvalidChecksumByte ==
    [][ C15_ChecksumByteRead /\ C15_PacketCompletes ]_vars

\* C16: whenever the machine is in IDLE the packet-scoped state carries
\* nothing of the packet before: self.datas, self.start_code and
\* self.checksum_invalid have the values reset() gives them; and the step
\* from SUM to IDLE leaves total, pass_num and fail_num to the statistics
\* (total + 1, pass_num and fail_num together at most + 1, never reset).
C16_PacketStateReset ==
    [][ /\ (pc' = "loop" /\ state' = Status.IDLE) =>
             /\ datas' = << >>
             /\ start_code' = 0
             /\ checksum_invalid' = FALSE
        /\ (ClosingEdge /\ pc' = "loop") =>
             /\ state' = Status.IDLE
             /\ total' = total + 1
             /\ pass_num' >= pass_num
             /\ fail_num' >= fail_num ]_vars

\* C17: with statistics enabled, the summary annotation of a completed
\* packet starts at the first edge of the packet's preamble and ends at the
\* closing rising edge that the step from SUM to IDLE consumed.
C17_SummarySpansToClosingEdge ==
    [][ (ClosingEdge /\ is_statistic /\ pc' = "loop") =>
          /\ Len(out') = Len(out) + 1
          /\ out'[Len(out')].ann = Ann.DEBUG
          /\ out'[Len(out')].ss = preable_anchor[1]
          /\ out'[Len(out')].es = samplenum'
          /\ samplenum' = FallingEdges[48] + wave.tail ]_vars

\* C18: with statistics enabled and a target that is an unsigned 4-byte
\* value, a packet in which at least one of the four payload bytes is
\* Invalid is never counted as a pass: the closing edge adds one to fail_num
\* and leaves pass_num, whatever the target, the checksum flag and the
\* start byte are.
C18_InvalidPayloadNeverPasses ==
    [][ (/\ ClosingEdge /\ is_statistic
         /\ ~to_bytes_raises(target_data)
         /\ \E j \in 2..5 : \E k \in 1..8 :
              SymbolOf(wave.bytes[j][k]) = -1)
        => /\ Len(datas) < 4
           /\ pass_num' = pass_num
           /\ fail_num' = fail_num + 1
           /\ state' = Status.IDLE /\ pc' = "loop" ]_vars

\* the second packet lost a payload byte and its checksum byte, after a
\* packet that passed: the flag is still true, the start byte is 0x4C, the
\* three bytes left are the low-order bytes of the target, and the packet
\* was counted as a fail
C18_Witness ==
    /\ pc = "loop" /\ state = Status.IDLE /\ total = 2
    /\ pass_num = 1 /\ fail_num = 1
    /\ datas = <<2, 3, 4>>
    /\ checksum_invalid
    /\ start_code = START_CODE

\* the byte eight pulse pairs stand for: -1 when a symbol is Invalid, else
\* the symbols packed most significant bit first
TrainByte(train) ==
    IF \E k \in 1..8 : SymbolOf(train[k]) = -1 THEN -1
    ELSE LET S[i \in 0..8] ==
               IF i = 0 THEN 0 ELSE S[i - 1] + SymbolOf(train[i]) * Pow2(8 - i)
         IN S[8]

\* the valid payload bytes of a packet signal, in order
SignalPayload(w) ==
    LET V[j \in 1..5] ==
          IF j = 1 THEN << >>
          ELSE IF TrainByte(w.bytes[j]) # -1
               THEN Append(V[j - 1], TrainByte(w.bytes[j]))
               ELSE V[j - 1]
    IN V[5]

\* the checksum flag after the checksum byte of signal w, from the flag
\* before it
SignalFlag(w, flag) ==
    IF TrainByte(w.bytes[6]) = -1 THEN flag
    ELSE TrainByte(w.bytes[6]) = SumMod256(SignalPayload(w))

\* C19: preamble validity does not influence the statistics.  Every step of
\* decode() changes total, pass_num, fail_num and the checksum flag (and
\* raises or not) as a function of their values before the step, the
\* target and the start, payload and checksum pulse pairs of the packet,
\* alone: the preamble pulse durations, the preamble verdict and the sample
\* numbers do not occur in that function.  Two runs over signals that
\* differ only in preamble durations therefore pass through the same
\* counters step by step.  (A call of reset() sets the counters to 0.)
C19_PreambleDoesNotInfluenceStatistics ==
    [][ IF pc' = "start" \/ host_calls' > 0
        THEN TRUE
        ELSE IF pc = "wait" /\ branch = Status.DATA /\ pc' = "loop"
        THEN /\ checksum_invalid' = SignalFlag(wave, checksum_invalid)
             /\ UNCHANGED << total, pass_num, fail_num >>
        ELSE IF ClosingEdge
        THEN /\ total' = total + 1
             /\ checksum_invalid' = checksum_invalid
             /\ IF ~is_statistic
                THEN pc' = "loop" /\ UNCHANGED << pass_num, fail_num >>
                ELSE IF to_bytes_raises(target_data)
                THEN /\ pc' = "raised"
                     /\ UNCHANGED << pass_num, fail_num >>
                ELSE IF /\ SignalPayload(wave) = to_bytes4(target_data)
                        /\ checksum_invalid
                     THEN IF TrainByte(wave.bytes[1]) = -1
                          THEN /\ pc' = "raised"
                               /\ UNCHANGED << pass_num, fail_num >>
                          ELSE IF TrainByte(wave.bytes[1]) = START_CODE
                          THEN /\ pass_num' = pass_num + 1
                               /\ pc' = "loop"
                               /\ UNCHANGED fail_num
                          ELSE /\ fail_num' = fail_num + 1
                               /\ pc' = "loop"
                               /\ UNCHANGED pass_num
                     ELSE /\ fail_num' = fail_num + 1
                          /\ pc' = "loop"
                          /\ UNCHANGED pass_num
        ELSE /\ UNCHANGED << total, pass_num, fail_num, checksum_invalid >>
             /\ pc' = "raised" => pc \in {"start", "raised"}
      ]_vars

\* a packet whose preamble low pulse lasts 3 ms was counted as a pass
C19_Witness ==
    /\ pc = "loop" /\ state = Status.IDLE /\ total = 1
    /\ pass_num = 1 /\ fail_num = 0
    /\ wave.pre[1] = Samples(3000)
    /\ \E i \in 1..Len(out) :
         /\ out[i].ann = Ann.PREAMBLE
         /\ out[i].label[1] = "Preamble"
         /\ out[i].es - out[i].ss = wave.pre[1] + wave.pre[2]

\* the annotations of the session displayed in one row of annotation_rows,
\* in the order they were put
RowAnns(row) == SelectSeq(out, LAMBDA a : a.ann \in row)

\* the annotations of a sequence follow each other without overlap: each
\* has ss <= es and starts no earlier than the one before it ends (so that
\* any two of them, not only neighbours, do not overlap)
InSampleOrder(q) ==
    /\ \A n \in 1..Len(q) : q[n].ss <= q[n].es
    /\ \A n \in 2..Len(q) : q[n - 1].es <= q[n].ss

\* C20: over the whole session the end samples of the annotations are
\* non-decreasing in the order they are put, and within each of the rows
\* bits (Bit), packet (Preamble, Start, Data and checksum) and datas
\* (Function, Args) the annotations do not overlap and are put in the order
\* of their samples, although a byte or packet level annotation is put
\* after the Bit annotations it covers.
C20_SessionOrderPerRow ==
    Undisturbed =>
      /\ \A i \in 2..Len(out) : out[i - 1].es <= out[i].es
      /\ InSampleOrder(RowAnns(annotation_rows.bits))
      /\ InSampleOrder(RowAnns(annotation_rows.packet))
      /\ InSampleOrder(RowAnns(annotation_rows.datas))

\* in the second packet of a session a Start annotation was put after, and
\* over, the eight Bit annotations of its byte, and Function, Args, Data and
\* checksum annotations followed
C20_Witness ==
    /\ pc = "loop" /\ state = Status.SUM /\ total = 1
    /\ Undisturbed
    /\ \E i \in 9..Len(out) :
         /\ out[i].pkt = 1 /\ out[i].ann = Ann.START
         /\ out[i - 1].ann = Ann.BIT
         /\ out[i].ss = out[i - 8].ss /\ out[i].es = out[i - 1].es
    /\ Len(CurAnns(Ann.FUNCTION)) = 1
    /\ Len(CurAnns(Ann.ARGS)) = 3
    /\ Len(CurAnns(Ann.DATA)) = 2
    /\ \E j \in 1..Len(out) : out[j].pkt = 0 /\ out[j].ann = Ann.DEBUG

====
